---- MODULE Spec2Model ----
(***************************************************************************)
(* The graph interpreter of backend/main.py (TradeCraft-AI): the           *)
(* TradingContext, the expression and condition evaluators and the         *)
(* depth-first walk of run_algo.execute_from_node.                         *)
(*                                                                         *)
(* Text is modelled at character level: a Python str is a sequence of      *)
(* one-character strings, so that the regular-expression rewrites of       *)
(* replace_variables and evaluate_condition are computed as re.sub         *)
(* computes them.  Numbers are integers (floats with an integral value);   *)
(* a value remembers whether Python holds it as an int or as a float,      *)
(* because str() prints the two differently.                               *)
(***************************************************************************)
EXTENDS Integers, Sequences, FiniteSets, TLC

(***************************************************************************)
(* Characters and strings                                                  *)
(***************************************************************************)
Digits == {"0", "1", "2", "3", "4", "5", "6", "7", "8", "9"}

Letters ==
    {"a", "b", "c", "d", "e", "f", "g", "h", "i", "j", "k", "l", "m",
     "n", "o", "p", "q", "r", "s", "t", "u", "v", "w", "x", "y", "z",
     "A", "B", "C", "D", "E", "F", "G", "H", "I", "J", "K", "L", "M",
     "N", "O", "P", "Q", "R", "S", "T", "U", "V", "W", "X", "Y", "Z"}

\* \w of the pattern r'\{(\w+)\}'
WordChars == Letters \cup Digits \cup {"_"}

\* [a-zA-Z0-9_\.] of the negation and XOR patterns
OperandChars == WordChars \cup {"."}

\* \s
IsSpace(c) == c = " "

\* s[i..j] (empty when j < i)
Slice(s, i, j) == SubSeq(s, i, j)

\* the first position >= i of s that holds a character outside cs (Len(s)+1 if none)
RECURSIVE RunEnd(_, _, _)
RunEnd(s, i, cs) ==
    IF i > Len(s) \/ s[i] \notin cs THEN i ELSE RunEnd(s, i + 1, cs)

\* the first position >= i of s that is not white space
SkipSpace(s, i) == RunEnd(s, i, {" "})

\* whether the literal lit occurs in s at position i
At(s, i, lit) ==
    /\ i + Len(lit) - 1 <= Len(s)
    /\ \A k \in 1..Len(lit) : s[i + k - 1] = lit[k]

\* lit in s
Contains(s, lit) == \E i \in 1..Len(s) : At(s, i, lit)

\* str.strip()
RECURSIVE LStrip(_)
LStrip(s) == IF s # <<>> /\ IsSpace(Head(s)) THEN LStrip(Tail(s)) ELSE s

RECURSIVE RStrip(_)
RStrip(s) ==
    IF s # <<>> /\ IsSpace(s[Len(s)]) THEN RStrip(SubSeq(s, 1, Len(s) - 1)) ELSE s

Strip(s) == RStrip(LStrip(s))

\* str.replace(old, new): every non-overlapping occurrence, left to right
RECURSIVE ReplaceFrom(_, _, _, _)
ReplaceFrom(s, i, old, new) ==
    IF i > Len(s) THEN <<>>
    ELSE IF At(s, i, old) THEN new \o ReplaceFrom(s, i + Len(old), old, new)
    ELSE <<s[i]>> \o ReplaceFrom(s, i + 1, old, new)

Replace(s, old, new) == ReplaceFrom(s, 1, old, new)

(***************************************************************************)
(* Numbers: Python floats, modelled as exact fractions n/d in lowest terms *)
(***************************************************************************)
RECURSIVE GCD(_, _)
GCD(a, b) == IF b = 0 THEN a ELSE GCD(b, a % b)

Abs(x) == IF x < 0 THEN 0 - x ELSE x

\* n/d for d # 0, in lowest terms with a positive denominator
Reduced(n, d, g) == [n |-> (IF d < 0 THEN 0 - n ELSE n) \div g, d |-> Abs(d) \div g]

Rat(n, d) == Reduced(n, d, GCD(Abs(n), Abs(d)))

Q(n) == [n |-> n, d |-> 1]

QAdd(x, y) == Rat(x.n * y.d + y.n * x.d, x.d * y.d)

QSub(x, y) == Rat(x.n * y.d - y.n * x.d, x.d * y.d)

QMul(x, y) == Rat(x.n * y.n, x.d * y.d)

\* x / y for y # 0
QDiv(x, y) == Rat(x.n * y.d, x.d * y.n)

QLe(x, y) == x.n * y.d <= y.n * x.d

QLt(x, y) == x.n * y.d < y.n * x.d

QAbs(x) == [n |-> Abs(x.n), d |-> x.d]

(***************************************************************************)
(* Values: None, an int, a float, or a str                                 *)
(***************************************************************************)
None == [t |-> "none", q |-> Q(0), s |-> <<>>]

PyInt(n) == [t |-> "int", q |-> Q(n), s |-> <<>>]

PyFloat(n) == [t |-> "float", q |-> Q(n), s |-> <<>>]

\* the float of a fraction
PyFloatQ(x) == [t |-> "float", q |-> x, s |-> <<>>]

PyStr(s) == [t |-> "str", q |-> Q(0), s |-> s]

\* isinstance(v, (int, float))
IsNumber(v) == v.t \in {"int", "float"}

DigitChar(d) ==
    CASE d = 0 -> "0" [] d = 1 -> "1" [] d = 2 -> "2" [] d = 3 -> "3" [] d = 4 -> "4"
      [] d = 5 -> "5" [] d = 6 -> "6" [] d = 7 -> "7" [] d = 8 -> "8" [] d = 9 -> "9"

DigitVal(c) ==
    CASE c = "0" -> 0 [] c = "1" -> 1 [] c = "2" -> 2 [] c = "3" -> 3 [] c = "4" -> 4
      [] c = "5" -> 5 [] c = "6" -> 6 [] c = "7" -> 7 [] c = "8" -> 8 [] c = "9" -> 9

\* the decimal digits of n >= 0
RECURSIVE NatStr(_)
NatStr(n) == IF n < 10 THEN <<DigitChar(n)>> ELSE NatStr(n \div 10) \o <<DigitChar(n % 10)>>

IntStr(n) == IF n < 0 THEN <<"-">> \o NatStr(0 - n) ELSE NatStr(n)

\* str(v): 2 prints as "2", 2.0 as "2.0", a str as itself.  The digits of a
\* float that is not integral are not modelled: "~" stands for them, a
\* character outside the evaluators' fragment.
StrOf(v) ==
    CASE v.t = "int" -> IntStr(v.q.n)
      [] v.t = "float" -> IF v.q.d = 1 THEN IntStr(v.q.n) \o <<".", "0">> ELSE <<"~">>
      [] v.t = "str" -> v.s
      [] OTHER -> <<"N", "o", "n", "e">>

(***************************************************************************)
(* replace_variables: re.sub(r'\{(\w+)\}', replacer, expression)           *)
(***************************************************************************)
\* j is where the run of \w characters after the "{" at i ends: the position
\* of the "}" that closes the match, or 0
VarClose(s, i, j) == IF j > i + 1 /\ j <= Len(s) /\ s[j] = "}" THEN j ELSE 0

\* the position of the "}" closing a match of \{(\w+)\} that starts at i, or 0
VarMatchEnd(s, i) ==
    IF i <= Len(s) /\ s[i] = "{" THEN VarClose(s, i, RunEnd(s, i + 1, WordChars)) ELSE 0

\* the names the expression refers to
VarRefs(s) ==
    {Slice(s, i + 1, VarMatchEnd(s, i) - 1) : i \in {k \in 1..Len(s) : VarMatchEnd(s, k) # 0}}

RECURSIVE SubstFrom(_, _, _)

\* j = VarMatchEnd(s, i)
SubstAt(s, i, j, variables) ==
    IF j # 0
    THEN StrOf(variables[Slice(s, i + 1, j - 1)]) \o SubstFrom(s, j + 1, variables)
    ELSE <<s[i]>> \o SubstFrom(s, i + 1, variables)

SubstFrom(s, i, variables) ==
    IF i > Len(s) THEN <<>> ELSE SubstAt(s, i, VarMatchEnd(s, i), variables)

\* [ok |-> FALSE] models the ValueError "Variable ... not found"
ReplaceVariables(expression, variables) ==
    IF VarRefs(expression) \subseteq DOMAIN variables
    THEN [ok |-> TRUE, s |-> SubstFrom(expression, 1, variables)]
    ELSE [ok |-> FALSE, s |-> <<>>]

(***************************************************************************)
(* evaluate_condition: the rewrites of the logical operators               *)
(***************************************************************************)
RECURSIVE NegParenFrom(_, _)

\* j is the first position after i that is not white space
NegParenAt(s, i, j) ==
    IF s[i] = "!" /\ j <= Len(s) /\ s[j] = "("
    THEN <<" ", "n", "o", "t", " ", "(">> \o NegParenFrom(s, j + 1)
    ELSE <<s[i]>> \o NegParenFrom(s, i + 1)

NegParenFrom(s, i) == IF i > Len(s) THEN <<>> ELSE NegParenAt(s, i, SkipSpace(s, i + 1))

\* re.sub(r'!\s*\(', ' not (', resolved)
NegParen(s) == NegParenFrom(s, 1)

RECURSIVE NegNameFrom(_, _)

\* j is where the run of [a-zA-Z0-9_\.] after i ends
NegNameAt(s, i, j) ==
    IF s[i] = "!" /\ j > i + 1
    THEN <<" ", "n", "o", "t", " ">> \o Slice(s, i + 1, j - 1) \o NegNameFrom(s, j)
    ELSE <<s[i]>> \o NegNameFrom(s, i + 1)

NegNameFrom(s, i) ==
    IF i > Len(s) THEN <<>> ELSE NegNameAt(s, i, RunEnd(s, i + 1, OperandChars))

\* re.sub(r'!([a-zA-Z0-9_\.]+)', r' not \1', resolved)
NegName(s) == NegNameFrom(s, 1)

\* lines 81-86: negation first, then && and ||
RewriteLogical(s) ==
    Replace(Replace(NegName(NegParen(s)), <<"&", "&">>, <<" ", "a", "n", "d", " ">>),
            <<"|", "|">>, <<" ", "o", "r", " ">>)

\* '^^' in resolved
HasXor(s) == Contains(s, <<"^", "^">>)

\* \([^)]+\) from the "(" at i, j the first ")" after it: the position after the match, or 0
ParenEnd(s, i, j) == IF j > i + 1 /\ j <= Len(s) THEN j + 1 ELSE 0

\* [a-zA-Z0-9_\.]+ from i, j the end of the run: the position after the match, or 0
NameEnd(i, j) == IF j > i THEN j ELSE 0

\* One operand of xor_pattern, (\([^)]+\)|[a-zA-Z0-9_\.]+), matched at i: the
\* position after it, or 0.  Both alternatives are greedy and neither can
\* be shortened into another match, so the end is unique.
OperandEnd(s, i) ==
    IF i > Len(s) THEN 0
    ELSE IF s[i] = "(" THEN ParenEnd(s, i, RunEnd(s, i + 1, {s[k] : k \in 1..Len(s)} \ {")"}))
    ELSE NameEnd(i, RunEnd(s, i, OperandChars))

NoMatch == [a |-> 0, b |-> 0, c |-> 0, d |-> 0]

\* the second operand starts at c
XorSecond(a, b, c, d) == IF d = 0 THEN NoMatch ELSE [a |-> a, b |-> b, c |-> c, d |-> d]

\* x is the first position after the first operand that is not white space
XorOperator(s, a, b, x) ==
    IF At(s, x, <<"^", "^">>)
    THEN XorSecond(a, b, SkipSpace(s, x + 2), OperandEnd(s, SkipSpace(s, x + 2)))
    ELSE NoMatch

\* the first operand is [a, b)
XorFirst(s, a, b) == IF b = 0 THEN NoMatch ELSE XorOperator(s, a, b, SkipSpace(s, b))

\* xor_pattern matched at i: [a, b) is the first operand, [c, d) the second; d = 0 if no match
XorMatchAt(s, i) == XorFirst(s, i, OperandEnd(s, i))

XorMatches(s) == {i \in 1..Len(s) : XorMatchAt(s, i).d # 0}

\* the match g rewritten to (bool(\1) != bool(\2))
XorRewrite(s, g) ==
    Slice(s, 1, g.a - 1)
      \o <<"(", "b", "o", "o", "l", "(">> \o Slice(s, g.a, g.b - 1)
      \o <<")", " ", "!", "=", " ", "b", "o", "o", "l", "(">> \o Slice(s, g.c, g.d - 1)
      \o <<")", ")">> \o Slice(s, g.d, Len(s))

\* the least element of a non-empty set of positions
Leftmost(S) == CHOOSE k \in S : \A m \in S : k <= m

\* re.sub(xor_pattern, r'(bool(\1) != bool(\2))', resolved, count=1): the
\* leftmost match is rewritten; without a match the string is returned as it is
XorSub(s) ==
    IF XorMatches(s) = {} THEN s ELSE XorRewrite(s, XorMatchAt(s, Leftmost(XorMatches(s))))

(***************************************************************************)
(* eval(resolved, {"__builtins__": {}}, names): the fragment of Python's   *)
(* expression language used by the expressions of the model.  A token, a   *)
(* construct or a result outside the fragment is reported as "outside"     *)
(* (never as an error or a value); InFragment states that no evaluation    *)
(* of a run meets one.                                                     *)
(***************************************************************************)
Keywords == {<<"n", "o", "t">>, <<"a", "n", "d">>, <<"o", "r">>,
             <<"T", "r", "u", "e">>, <<"F", "a", "l", "s", "e">>}

\* Python keywords the fragment does not cover
OtherKeywords == {<<"i", "f">>, <<"e", "l", "s", "e">>, <<"i", "s">>, <<"i", "n">>,
                  <<"N", "o", "n", "e">>, <<"l", "a", "m", "b", "d", "a">>,
                  <<"f", "o", "r">>, <<"a", "w", "a", "i", "t">>, <<"y", "i", "e", "l", "d">>}

\* the characters that are the fragment's operators by themselves
SingleOps == {"(", ")", "+", "-"}

Tok(k, s, n) == [k |-> k, s |-> s, n |-> n]

RECURSIVE DigitsVal(_)
DigitsVal(s) == IF s = <<>> THEN 0 ELSE 10 * DigitsVal(SubSeq(s, 1, Len(s) - 1)) + DigitVal(s[Len(s)])

\* A token: [st, tok, p] with st one of "ok", "error" (SyntaxError) and
\* "outside", and p the position after the token
Token(st, tok, p) == [st |-> st, tok |-> tok, p |-> p]

\* a number whose digits are s[i..j-1] and, if s[j] = ".", whose fraction is
\* s[j+1..k-1]; k = j without a fraction.  Inside the fragment are the
\* numerals without a leading zero, with no or a zero fraction, that no
\* letter, digit or point follows.
NumToken(s, i, j, k) ==
    Token(IF /\ (j = i + 1 \/ s[i] # "0")
             /\ (k > Len(s) \/ s[k] \notin WordChars \cup {"."})
             /\ (k > j => k > j + 1 /\ \A m \in (j + 1)..(k - 1) : s[m] = "0")
          THEN "ok" ELSE "outside",
          Tok("num", <<>>, DigitsVal(Slice(s, i, j - 1))), k)

\* j is the end of the run of digits from i
NumFraction(s, i, j) ==
    NumToken(s, i, j, IF j <= Len(s) /\ s[j] = "." THEN RunEnd(s, j + 1, Digits) ELSE j)

\* the word w, which ends before j
WordToken(w, j) ==
    Token(IF w \in OtherKeywords THEN "outside" ELSE "ok",
          Tok(IF w \in Keywords THEN "kw" ELSE "name", w, 0), j)

\* c is s[i], two is s[i..i+1]
OpToken(i, c, two) ==
    IF two \in {<<"!", "=">>, <<"=", "=">>, <<"<", "=">>, <<">", "=">>}
    THEN Token("ok", Tok("op", two, 0), i + 2)
    ELSE IF two \in {<<"*", "*">>, <<"/", "/">>, <<"<", "<">>, <<">", ">">>, <<"<", ">">>}
    THEN Token("outside", Tok("op", two, 0), i + 2)
    ELSE IF c \in SingleOps \cup {"*", "/", "<", ">"}
    THEN Token("ok", Tok("op", <<c>>, 0), i + 1)
    ELSE IF c \in {"!", "=", "$", "?"}
    THEN Token("error", Tok("op", <<c>>, 0), i + 1)
    ELSE Token("outside", Tok("op", <<c>>, 0), i + 1)

\* the token that starts at i (a non-space position)
TokenAt(s, i) ==
    IF s[i] \in Digits THEN NumFraction(s, i, RunEnd(s, i, Digits))
    ELSE IF s[i] \in Letters \cup {"_"}
    THEN WordToken(Slice(s, i, RunEnd(s, i, WordChars) - 1), RunEnd(s, i, WordChars))
    ELSE OpToken(i, s[i], IF i < Len(s) THEN <<s[i], s[i + 1]>> ELSE <<s[i]>>)

\* the tokens of s from position i on, after the tokens acc: [st, toks].
\* "outside" wins over "error": what the fragment does not cover is never
\* taken for a SyntaxError.
RECURSIVE TokensFrom(_, _, _, _)

\* t is the token at j
TokensNext(s, t, st, acc) ==
    TokensFrom(s, t.p, IF t.st = "outside" \/ st = "outside" THEN "outside"
                       ELSE IF t.st = "error" \/ st = "error" THEN "error" ELSE "ok",
               Append(acc, t.tok))

\* j is i after the white space
TokensAt(s, j, st, acc) ==
    IF j > Len(s) THEN [st |-> st, toks |-> acc] ELSE TokensNext(s, TokenAt(s, j), st, acc)

TokensFrom(s, i, st, acc) == TokensAt(s, SkipSpace(s, i), st, acc)

Tokens(s) == TokensFrom(s, 1, "ok", <<>>)

\* ---- the parser.  The levels of Python's grammar: or_test (0), and_test
\* ---- (1), not_test (2), comparison (3), arith_expr (4), term (5), factor
\* ---- (6), and atom with its one-argument call trailers.  A result is
\* ---- [st, ast, p, chain]: p is the position of the next token, chain
\* ---- whether ast is a comparison that a further operator would extend.
IsOp(toks, p, o) == p <= Len(toks) /\ toks[p].k = "op" /\ toks[p].s = o

IsKw(toks, p, w) == p <= Len(toks) /\ toks[p].k = "kw" /\ toks[p].s = w

CmpOps == {<<"!", "=">>, <<"=", "=">>, <<"<">>, <<">">>, <<"<", "=">>, <<">", "=">>}

Bad(st) == [st |-> st, ast |-> [k |-> "none"], p |-> 0, chain |-> FALSE]

Good(ast, p) == [st |-> "ok", ast |-> ast, p |-> p, chain |-> FALSE]

\* the level of the binary operator tok, -1 if it is none
Level(tok) ==
    IF tok.k = "kw" /\ tok.s = <<"o", "r">> THEN 0
    ELSE IF tok.k = "kw" /\ tok.s = <<"a", "n", "d">> THEN 1
    ELSE IF tok.k = "op" /\ tok.s \in CmpOps THEN 3
    ELSE IF tok.k = "op" /\ tok.s \in {<<"+">>, <<"-">>} THEN 4
    ELSE IF tok.k = "op" /\ tok.s \in {<<"*">>, <<"/">>} THEN 5
    ELSE -1

\* left < right with one more operand: a < b < c is one chain, (a < b) < c is not
Compared(op, left, right) ==
    IF left.chain
    THEN [k |-> "cmp", args |-> Append(left.ast.args, right.ast), ops |-> Append(left.ast.ops, op)]
    ELSE [k |-> "cmp", args |-> <<left.ast, right.ast>>, ops |-> <<op>>]

\* left op right at the level lvl
Combine(lvl, op, left, right) ==
    IF right.st # "ok" THEN right
    ELSE [st |-> "ok",
          ast |-> CASE lvl = 0 -> [k |-> "or", a |-> left.ast, b |-> right.ast]
                    [] lvl = 1 -> [k |-> "and", a |-> left.ast, b |-> right.ast]
                    [] lvl = 3 -> Compared(op, left, right)
                    [] OTHER -> [k |-> "bin", op |-> op, a |-> left.ast, b |-> right.ast],
          p |-> right.p,
          chain |-> lvl = 3]

NotOf(a) == IF a.st # "ok" THEN a ELSE Good([k |-> "not", a |-> a.ast], a.p)

\* -x is 0 - x, +x is 0 + x
SignOf(op, a) ==
    IF a.st # "ok" THEN a
    ELSE Good([k |-> "bin", op |-> op, a |-> [k |-> "num", n |-> 0], b |-> a.ast], a.p)

\* the ")" that ends ( a
Closed(toks, a) ==
    IF a.st # "ok" THEN a ELSE IF IsOp(toks, a.p, <<")">>) THEN Good(a.ast, a.p + 1) ELSE Bad("error")

\* f ( a )
CallOf(f, a) == IF a.st # "ok" THEN a ELSE Good([k |-> "call", f |-> f.ast, a |-> a.ast], a.p)

RECURSIVE ParseLevel(_, _, _), ParseRest(_, _, _, _), ParseTrailers(_, _)

ParseAtom(toks, p) ==
    IF p > Len(toks) THEN Bad("error")
    ELSE IF toks[p].k = "num" THEN Good([k |-> "num", n |-> toks[p].n], p + 1)
    ELSE IF toks[p].k = "name" THEN Good([k |-> "name", s |-> toks[p].s], p + 1)
    ELSE IF IsKw(toks, p, <<"T", "r", "u", "e">>) THEN Good([k |-> "num", n |-> 1], p + 1)
    ELSE IF IsKw(toks, p, <<"F", "a", "l", "s", "e">>) THEN Good([k |-> "num", n |-> 0], p + 1)
    ELSE IF IsOp(toks, p, <<"(">>)
    THEN IF IsOp(toks, p + 1, <<")">>) THEN Bad("outside")
         ELSE Closed(toks, ParseLevel(toks, p + 1, 0))
    ELSE Bad("error")

\* f(arg): a call with one positional argument, and the calls of its result
ParseTrailers(toks, left) ==
    IF left.st = "ok" /\ IsOp(toks, left.p, <<"(">>)
    THEN IF IsOp(toks, left.p + 1, <<")">>) THEN Bad("outside")
         ELSE ParseTrailers(toks, CallOf(left, Closed(toks, ParseLevel(toks, left.p + 1, 0))))
    ELSE left

\* the operators of the levels lvl..top that follow left, and their operands.
\* The operands of an operator are of the next level; what is left then
\* has no operator of a higher level than it.
ParseRest(toks, lvl, top, left) ==
    IF /\ left.st = "ok"
       /\ left.p <= Len(toks)
       /\ Level(toks[left.p]) >= lvl
       /\ Level(toks[left.p]) <= top
    THEN ParseRest(toks, lvl, Level(toks[left.p]),
                   Combine(Level(toks[left.p]), toks[left.p].s, left,
                           ParseLevel(toks, left.p + 1, Level(toks[left.p]) + 1)))
    ELSE left

\* an expression of level lvl or above from position p: "not" and its
\* not_test, a sign and its factor, or an atom, and the operators after it
ParseLevel(toks, p, lvl) ==
    IF lvl <= 2 /\ IsKw(toks, p, <<"n", "o", "t">>)
    THEN ParseRest(toks, lvl, 1, NotOf(ParseLevel(toks, p + 1, 2)))
    ELSE IF IsOp(toks, p, <<"-">>) \/ IsOp(toks, p, <<"+">>)
    THEN ParseRest(toks, lvl, 5, SignOf(toks[p].s, ParseLevel(toks, p + 1, 6)))
    ELSE ParseRest(toks, lvl, 5, ParseTrailers(toks, ParseAtom(toks, p)))

\* the whole text is one expression
WholeText(toks, a) ==
    IF a.st # "ok" THEN a ELSE IF a.p = Len(toks) + 1 THEN a ELSE Bad("error")

Parse(toks) == WholeText(toks, ParseLevel(toks, 1, 0))

\* ---- the evaluation of a parsed expression; numbers are integers, and
\* ---- True and False are 1 and 0 as in Python.  A result is [st, v].
Val(n) == [st |-> "ok", v |-> n]

Fail(st) == [st |-> st, v |-> 0]

CmpHolds(op, x, y) ==
    CASE op = <<"!", "=">> -> x # y
      [] op = <<"=", "=">> -> x = y
      [] op = <<"<">> -> x < y
      [] op = <<">">> -> x > y
      [] op = <<"<", "=">> -> x <= y
      [] op = <<">", "=">> -> x >= y

\* a op b for numbers; the quotient of a division that is not exact is
\* outside the fragment
Arith(op, a, b) ==
    IF a.st # "ok" THEN a
    ELSE IF b.st # "ok" THEN b
    ELSE CASE op = <<"+">> -> Val(a.v + b.v)
           [] op = <<"-">> -> Val(a.v - b.v)
           [] op = <<"*">> -> Val(a.v * b.v)
           [] op = <<"/">> ->
                 IF b.v = 0 THEN Fail("error")
                 ELSE IF Abs(a.v) % Abs(b.v) # 0 THEN Fail("outside")
                 ELSE Val((IF (a.v < 0) = (b.v < 0) THEN 1 ELSE -1) * (Abs(a.v) \div Abs(b.v)))

NotVal(a) == IF a.st # "ok" THEN a ELSE Val(IF a.v = 0 THEN 1 ELSE 0)

\* name(a) for a name of the namespace: bool and abs are in the fragment
Called(name, a) ==
    IF a.st # "ok" THEN a
    ELSE IF name = <<"b", "o", "o", "l">> THEN Val(IF a.v = 0 THEN 0 ELSE 1)
    ELSE IF name = <<"a", "b", "s">> THEN Val(Abs(a.v))
    ELSE Fail("outside")

\* f(a) for an f that is not a name: calling a number is a TypeError
CalledValue(f, a) == IF f.st # "ok" THEN f ELSE IF a.st # "ok" THEN a ELSE Fail("error")

RECURSIVE EvalAst(_, _), EvalChain(_, _, _, _)

\* a or b, a and b: b is evaluated only if a does not decide
OrVal(a, ast, funcs) == IF a.st # "ok" \/ a.v # 0 THEN a ELSE EvalAst(ast.b, funcs)

AndVal(a, ast, funcs) == IF a.st # "ok" \/ a.v = 0 THEN a ELSE EvalAst(ast.b, funcs)

\* the chain after its first operand a
CmpVal(a, ast, funcs) == IF a.st # "ok" THEN a ELSE EvalChain(ast, funcs, 1, a.v)

\* left ops[i] b and the rest of the chain
ChainVal(ast, funcs, i, left, b) ==
    IF b.st # "ok" THEN b
    ELSE IF ~CmpHolds(ast.ops[i], left, b.v) THEN Val(0)
    ELSE IF i = Len(ast.ops) THEN Val(1)
    ELSE EvalChain(ast, funcs, i + 1, b.v)

\* args[i] ops[i] args[i+1] and ..., left to right, stopping at the first false
EvalChain(ast, funcs, i, left) == ChainVal(ast, funcs, i, left, EvalAst(ast.args[i + 1], funcs))

\* funcs: the callables of the evaluation's namespace.  A name that is not
\* in it is a NameError; a callable used as a value is outside the fragment.
EvalAst(ast, funcs) ==
    CASE ast.k = "num" -> Val(ast.n)
      [] ast.k = "name" -> IF ast.s \in funcs THEN Fail("outside") ELSE Fail("error")
      [] ast.k = "not" -> NotVal(EvalAst(ast.a, funcs))
      [] ast.k = "or" -> OrVal(EvalAst(ast.a, funcs), ast, funcs)
      [] ast.k = "and" -> AndVal(EvalAst(ast.a, funcs), ast, funcs)
      [] ast.k = "cmp" -> CmpVal(EvalAst(ast.args[1], funcs), ast, funcs)
      [] ast.k = "bin" -> Arith(ast.op, EvalAst(ast.a, funcs), EvalAst(ast.b, funcs))
      [] ast.k = "call" ->
            IF ast.f.k = "name"
            THEN IF ast.f.s \notin funcs THEN Fail("error")
                 ELSE Called(ast.f.s, EvalAst(ast.a, funcs))
            ELSE CalledValue(EvalAst(ast.f, funcs), EvalAst(ast.a, funcs))

EvalParsed(a, funcs) == IF a.st # "ok" THEN Fail(a.st) ELSE EvalAst(a.ast, funcs)

EvalTokens(ts, funcs) ==
    IF ts.st # "ok" THEN Fail(ts.st) ELSE EvalParsed(Parse(ts.toks), funcs)

\* eval(text, {"__builtins__": {}}, funcs)
PyEval(text, funcs) == EvalTokens(Tokens(text), funcs)

\* safe_dict of evaluate_math
MathFuncs == {<<"p", "o", "w">>, <<"s", "q", "r", "t">>, <<"l", "o", "g">>,
              <<"l", "o", "g", "2">>, <<"l", "o", "g", "1", "0">>, <<"a", "b", "s">>,
              <<"m", "i", "n">>, <<"m", "a", "x">>}

\* {"bool": bool} of evaluate_condition
CondFuncs == {<<"b", "o", "o", "l">>}

\* resolved is what replace_variables returned or raised
MathOf(resolved) == IF ~resolved.ok THEN Fail("error") ELSE PyEval(resolved.s, MathFuncs)

\* evaluate_math: [st, v]; "error" is the ValueError it raises, v the float it returns
EvaluateMath(expression, variables) == MathOf(ReplaceVariables(expression, variables))

LogicalOf(resolved) ==
    IF ~resolved.ok THEN resolved ELSE [ok |-> TRUE, s |-> RewriteLogical(resolved.s)]

\* evaluate_condition up to the XOR loop (lines 77-86): [ok, s]
ConditionResolved(condition, variables) == LogicalOf(ReplaceVariables(condition, variables))

\* bool(result)
BoolOf(r) == IF r.st # "ok" THEN r ELSE Val(IF r.v = 0 THEN 0 ELSE 1)

\* evaluate_condition after the XOR loop (lines 96-97): bool(eval(resolved))
ConditionEval(resolved) == BoolOf(PyEval(resolved, CondFuncs))

(***************************************************************************)
(* TradingContext                                                          *)
(***************************************************************************)
Assets == {"BTC", "ETH"}

\* TradingContext.__init__
TradingContext ==
    [vars |-> [k \in {} |-> None],
     budget |-> Q(0),
     holdings |-> [a \in Assets |-> Q(0)],
     logs |-> <<>>,
     last_output |-> None]

\* One log line "[tag] msg": msg is the fixed part of the message and v the
\* value printed in it (None if none).  node is the id of the node whose
\* dispatch wrote the line; the program's line does not carry it.
Entry(tag, msg, v, node) == [tag |-> tag, msg |-> msg, v |-> v, node |-> node]

\* TradingContext.log
Log(c, e) == [c EXCEPT !.logs = Append(@, e)]

\* a mapping in which the first value stored under a name stays
StoreFirst(variables, name, v) ==
    [k \in DOMAIN variables \cup {name} |-> IF k \in DOMAIN variables THEN variables[k] ELSE v]

\* variables[name] = v
Store(variables, name, v) ==
    [k \in DOMAIN variables \cup {name} |-> IF k = name THEN v ELSE variables[k]]

\* float(x or 0) for a field that holds a number or is absent
FloatOr0(x) == IF x.t = "none" \/ x.q.n = 0 THEN Q(0) ELSE x.q

\* a START node that also empties the wallet
DoStartReset(c, id) ==
    [Log(c, Entry("START", "Engine Ignited.", None, id)) EXCEPT !.last_output = None, !.budget = Q(0)]

(***************************************************************************)
(* The dispatch of one node, lines 127-268: the context after it.  data is *)
(* the node's "data" object, id the node's id.                             *)
(***************************************************************************)
\* lines 127-129
DoStart(c, id) ==
    [Log(c, Entry("START", "Engine Ignited.", None, id)) EXCEPT !.last_output = None]

\* lines 132-141 for the stripped name
StoreAs(c, id, var_name) ==
    [(IF var_name # <<>> /\ c.last_output # None
      THEN Log([c EXCEPT !.vars = Store(@, var_name, c.last_output)],
               Entry("VARIABLE", "Stored", c.last_output, id))
      ELSE IF var_name = <<>>
      THEN Log(c, Entry("VARIABLE", "WARNING: No variable name specified!", None, id))
      ELSE Log(c, Entry("VARIABLE", "WARNING: No data to store", None, id)))
       EXCEPT !.last_output = None]

\* lines 131-141
DoVariable(c, id, data) == StoreAs(c, id, Strip(data.variableName))

\* lines 146-152: r is what evaluate_math returned or raised
CalculatedNone(c, id, r) ==
    IF r.st = "ok"
    THEN [Log(c, Entry("MATH", "Calculated", PyFloat(r.v), id)) EXCEPT !.last_output = PyFloat(r.v)]
    ELSE [Log(c, Entry("MATH", "ERROR", None, id)) EXCEPT !.last_output = None]

Calculated(c, id, r) ==
    IF r.st = "ok"
    THEN [Log(c, Entry("MATH", "Calculated", PyFloat(r.v), id)) EXCEPT !.last_output = PyFloat(r.v)]
    ELSE [Log(c, Entry("MATH", "ERROR", None, id)) EXCEPT !.last_output = PyInt(0)]

\* lines 145-155 for the stripped expression
Calculate(c, id, expression) ==
    IF expression # <<>>
    THEN Calculated(c, id, EvaluateMath(expression, c.vars))
    ELSE [Log(c, Entry("MATH", "WARNING: No expression provided", None, id))
            EXCEPT !.last_output = PyInt(0)]

\* lines 143-155
DoMath(c, id, data) == Calculate(c, id, Strip(data.expression))

\* lines 182-183 for the budget b
LockBudget(c, id, b) ==
    [Log([c EXCEPT !.budget = b], Entry("WALLET", "Budget locked", PyFloatQ(b), id))
       EXCEPT !.last_output = PyFloatQ(b)]

\* lines 180-183
DoSetBudget(c, id, data) == LockBudget(c, id, FloatOr0(data.manualValue))

\* lines 185-190, price the Close the price source returned
DoScrape(c, id, data, price) ==
    [Log(c, Entry("SCRAPE", IF data.category = "SCRAPE_BTC" THEN "BTC-USD" ELSE "ETH-USD",
                  PyFloatQ(price), id))
       EXCEPT !.last_output = PyFloatQ(price)]

\* lines 192-200, selected_news the headline random.choice drew
DoNews(c, id, selected_news) ==
    [Log(c, Entry("NEWS", "Scraped", PyStr(selected_news), id))
       EXCEPT !.last_output = PyStr(selected_news)]

\* lines 202-220, score the clamped model answer or the random fallback
DoLlm(c, id, score) ==
    [Log(c, Entry("GEMINI", "Sentiment", PyFloatQ(score), id))
       EXCEPT !.last_output = PyFloatQ(score)]

\* lines 264-268: variableName is looked up as it is, not stripped
DoOutput(c, id, data) ==
    [Log(c, Entry("OUTPUT", "=>",
                  IF data.variableName \in DOMAIN c.vars
                  THEN c.vars[data.variableName] ELSE PyStr(<<"N", "U", "L", "L">>), id))
       EXCEPT !.last_output = None]

\* the outcome of a dispatch that can raise: the context it leaves, and
\* whether an exception left it
Outcome(c, raised) == [c |-> c, raised |-> raised]

\* line 249
Price(c) == IF IsNumber(c.last_output) THEN c.last_output.q ELSE Q(0)

\* lines 251-262 for the amount amt and the cost amt * price.  raised is the
\* KeyError of ctx.holdings[ticker] for a ticker the holdings do not have;
\* the BUY has then already taken the cost from the budget (line 252).
Traded(c, id, cat, ticker, amt, cost) ==
    IF cat = "BUY" /\ QLe(cost, c.budget)
    THEN IF ticker \in DOMAIN c.holdings
         THEN Outcome([Log([c EXCEPT !.budget = QSub(@, cost), !.holdings[ticker] = QAdd(@, amt)],
                           Entry("TRADE", "BOUGHT", PyFloatQ(amt), id))
                         EXCEPT !.last_output = None], FALSE)
         ELSE Outcome([c EXCEPT !.budget = QSub(@, cost)], TRUE)
    ELSE IF cat = "SELL" /\ ticker \notin DOMAIN c.holdings
    THEN Outcome(c, TRUE)
    ELSE IF cat = "SELL" /\ QLe(amt, c.holdings[ticker])
    THEN Outcome([Log([c EXCEPT !.budget = QAdd(@, cost), !.holdings[ticker] = QSub(@, amt)],
                      Entry("TRADE", "SOLD", PyFloatQ(amt), id))
                    EXCEPT !.last_output = None], FALSE)
    ELSE Outcome([Log(c, Entry("TRADE", "FAILED: Insufficient funds or holdings", None, id))
                    EXCEPT !.last_output = None], FALSE)

\* lines 246-262
DoTrade(c, id, data) ==
    Traded(c, id, data.category, data.ticker, FloatOr0(data.manualValue),
           QMul(FloatOr0(data.manualValue), Price(c)))

\* 10^k
RECURSIVE Pow10(_)
Pow10(k) == IF k = 0 THEN 1 ELSE 10 * Pow10(k - 1)

\* the value of the numeral with sign s[1..i-1], digits s[i..j-1] and
\* fraction s[j+1..k-1] (none if k = j): [ok, q]; ok = FALSE is a ValueError
Numeral(s, i, j, k) ==
    IF j > i /\ k = Len(s) + 1 /\ (k > j => k > j + 1)
    THEN [ok |-> TRUE,
          q |-> QMul(Q(IF i = 2 THEN -1 ELSE 1),
                     IF k > j
                     THEN Rat(DigitsVal(Slice(s, i, j - 1)) * Pow10(k - j - 1)
                                + DigitsVal(Slice(s, j + 1, k - 1)), Pow10(k - j - 1))
                     ELSE Q(DigitsVal(Slice(s, i, j - 1))))]
    ELSE [ok |-> FALSE, q |-> Q(0)]

\* j is the end of the digits from i
NumeralFraction(s, i, j) ==
    Numeral(s, i, j, IF j <= Len(s) /\ s[j] = "." THEN RunEnd(s, j + 1, Digits) ELSE j)

NumeralFrom(s, i) == NumeralFraction(s, i, RunEnd(s, i, Digits))

\* float(s) for a stripped text
FloatOf(s) == NumeralFrom(s, IF s # <<>> /\ s[1] = "-" THEN 2 ELSE 1)

\* float(text) for a plain decimal numeral [-]digits[.digits]; any other
\* text of the model's requests is a ValueError
ParseFloat(text) == FloatOf(Strip(text))

\* lines 228-234: the val of an item whose value is not a variable
Literal(lit) == IF lit.ok THEN lit.q ELSE Q(0)

\* lines 236-238: the sums after an item of value val and weight weight
RiskAdd(acc, val, weight, raised) ==
    [w_sum |-> QAdd(acc.w_sum, QMul(val, weight)),
     w_total |-> QAdd(acc.w_total, weight),
     raised |-> raised]

\* lines 226-238 for the items from i on, acc the sums so far:
\* [w_sum, w_total, raised]; raised is the ValueError of float(ctx.vars[raw_v])
\* for a variable that holds text, which ends the loop
RECURSIVE RiskSum(_, _, _, _)
RiskSum(risk_inputs, i, variables, acc) ==
    IF i > Len(risk_inputs) THEN acc
    ELSE IF risk_inputs[i].value \in DOMAIN variables
    THEN IF IsNumber(variables[risk_inputs[i].value])
         THEN RiskSum(risk_inputs, i + 1, variables,
                      RiskAdd(acc, variables[risk_inputs[i].value].q,
                              FloatOr0(risk_inputs[i].weight), FALSE))
         ELSE [acc EXCEPT !.raised = TRUE]
    ELSE RiskSum(risk_inputs, i + 1, variables,
                 RiskAdd(acc, Literal(ParseFloat(risk_inputs[i].value)),
                         FloatOr0(risk_inputs[i].weight), FALSE))

\* line 240: abs(w_sum / w_total) if w_total > 0 else 0
RiskRatio(r) ==
    IF QLt(Q(0), r.w_total) THEN PyFloatQ(QAbs(QDiv(r.w_sum, r.w_total))) ELSE PyInt(0)

\* line 241: min(1, final_risk) is 1 unless final_risk < 1
Min1(final_risk) == IF QLt(final_risk.q, Q(1)) THEN final_risk ELSE PyInt(1)

\* lines 243-244
Scored(c, id, final_risk) ==
    [Log(c, Entry("RISK", "Weighted Risk Score", final_risk, id)) EXCEPT !.last_output = final_risk]

\* lines 240-244 for the sums r of the loop
Weighted(c, id, r) ==
    IF r.raised THEN Outcome(c, TRUE) ELSE Outcome(Scored(c, id, Min1(RiskRatio(r))), FALSE)

\* lines 222-244
DoRisk(c, id, data) ==
    Weighted(c, id, RiskSum(data.riskInputs, 1, c.vars,
                            [w_sum |-> Q(0), w_total |-> Q(0), raised |-> FALSE]))

(***************************************************************************)
(* The graph of a request                                                  *)
(***************************************************************************)
\* the data of a node of category cat with every field absent
Data(cat) ==
    [category |-> cat, variableName |-> <<>>, expression |-> <<>>, condition |-> <<>>,
     manualValue |-> None, ticker |-> "BTC", riskInputs |-> <<>>]

Node(id, data) == [id |-> id, data |-> data]

\* handle is "yes", "no" or "none" (no sourceHandle)
Edge(s, t, h) == [source |-> s, target |-> t, handle |-> h]

\* node_map[node_id]["data"]
NodeData(nodes, id) == (CHOOSE n \in {nodes[i] : i \in 1..Len(nodes)} : n.id = id).data

Targets(es) == [i \in 1..Len(es) |-> es[i].target]

\* line 272: [e["target"] for e in edges if e["source"] == node_id]
Outgoing(edges, id) ==
    LET From(e) == e.source = id IN Targets(SelectSeq(edges, From))

\* lines 165-171: the targets the CONDITION node recurses into, in edge order
Branches(edges, id, result) ==
    LET Taken(e) == e.source = id /\ e.handle = (IF result THEN "yes" ELSE "no")
    IN  Targets(SelectSeq(edges, Taken))

\* a run that begins a walk at every node, whatever its category
AnyNodes(nodes) == [i \in 1..Len(nodes) |-> nodes[i].id]

\* line 277
StartNodes(nodes) ==
    LET IsStart(n) == n.data.category = "START"
        starts == SelectSeq(nodes, IsStart)
    IN  [i \in 1..Len(starts) |-> starts[i].id]

(***************************************************************************)
(* The state.  Two requests can be in flight (Runs); run r is one call of  *)
(* run_algo.  Contexts live in a heap of objects (ctx), and a run holds a  *)
(* reference to the one it constructed (ref).                              *)
(***************************************************************************)
Runs == {1, 2}

CtxIds == Runs

VARIABLES
    payload,    \* payload[r]: the request body, [nodes, edges]
    pc,         \* pc[r]: "idle" (no request), "request", "walk", "xor", "done", "rejected", "crashed"
    ref,        \* ref[r]: the TradingContext object of run r (0 before it is constructed)
    ctx,        \* ctx[i]: the TradingContext object i
    startq,     \* startq[r]: the START nodes the loop of line 281 still has to walk
    calls,      \* calls[r]: the call stack of the walk as what is left to do, next first:
                \* the calls execute_from_node(id, visited) the loops of the frames
                \* still have to make and, after those of a CONDITION node's loop,
                \* the except clause of that node
    visited,    \* visited[r]: the visited set of the current walk
    cur,        \* cur[r]: the CONDITION node whose condition is being evaluated
    resolved,   \* resolved[r]: the local `resolved` of evaluate_condition
    alone       \* alone[r]: history variable, the context of run r had it been the
                \* only holder of its object: what r's own dispatches make of a
                \* TradingContext()

vars == <<payload, pc, ref, ctx, startq, calls, visited, cur, resolved, alone>>

\* the context object of run r
Ctx(r) == ctx[ref[r]]

\* one context object that every request uses
SharedContext(r) == 1

\* ctx = TradingContext() (line 105): a new object for each call
NewContext(r) == r

\* a call execute_from_node(id, visited) a loop has to make
Call(id) == [k |-> "call", id |-> id]

\* the except clause (line 175) of the CONDITION node id, whose try block is
\* open while the calls of its loop (lines 167-171) are made
Handler(id) == [k |-> "except", id |-> id]

Calls(ids) == [i \in 1..Len(ids) |-> Call(ids[i])]

\* the node the next call is about to dispatch, and its data
Id(r) == Head(calls[r]).id

DataOf(r) == NodeData(payload[r].nodes, Id(r))

Calling(r) == pc[r] = "walk" /\ calls[r] # <<>> /\ Head(calls[r]).k = "call"

\* a walk without the visited test of line 120
EnteringAgain(r, cat) == Calling(r) /\ DataOf(r).category = cat

\* lines 116-125: the call at hand passes the visited test, and the node is of category cat
Entering(r, cat) ==
    /\ Calling(r)
    /\ Id(r) \notin visited[r]
    /\ DataOf(r).category = cat

\* Run r changes its context object by F; alone[r] is the same change made
\* to the copy nobody else holds.
Update(r, F(_)) ==
    /\ ctx' = [ctx EXCEPT ![ref[r]] = F(@)]
    /\ alone' = [alone EXCEPT ![r] = F(@)]

\* line 122
Visit(r) == visited' = [visited EXCEPT ![r] = @ \cup {Id(r)}]

\* the dispatch F is done; lines 270-274 have the calls for all outgoing targets to make
Continue(r, F(_)) ==
    /\ Update(r, F)
    /\ Visit(r)
    /\ calls' = [calls EXCEPT ![r] = Calls(Outgoing(payload[r].edges, Id(r))) \o Tail(@)]
    /\ UNCHANGED <<payload, pc, ref, startq, cur, resolved>>

\* the position of the innermost open except clause from i on, 0 if none
RECURSIVE HandlerAt(_, _)
HandlerAt(cs, i) ==
    IF i > Len(cs) THEN 0 ELSE IF cs[i].k = "except" THEN i ELSE HandlerAt(cs, i + 1)

\* line 176 for the exception of a target's walk
Caught(c, id) == Log(c, Entry("CONDITION", "ERROR: exception of a target", None, id))

\* An exception leaves the dispatch, which did F before.  It ends the
\* frames up to the innermost CONDITION node whose try block is open (h its
\* except clause): line 176 logs it, and that node is done without a call
\* for the rest of its targets.  With no such node (h = 0) the exception
\* leaves run_algo and the request fails.
Propagate(r, F(_), h) ==
    /\ Visit(r)
    /\ IF h = 0
       THEN /\ Update(r, F)
            /\ pc' = [pc EXCEPT ![r] = "crashed"]
            /\ UNCHANGED calls
       ELSE /\ Update(r, LAMBDA c : Caught(F(c), calls[r][h].id))
            /\ calls' = [calls EXCEPT ![r] = SubSeq(@, h + 1, Len(@))]
            /\ UNCHANGED pc
    /\ UNCHANGED <<payload, ref, startq, cur, resolved>>

Raise(r, F(_)) == Propagate(r, F, HandlerAt(calls[r], 1))

\* the end of a dispatch D that can raise
Finish(r, D(_)) ==
    IF D(Ctx(r)).raised THEN Raise(r, LAMBDA c : D(c).c) ELSE Continue(r, LAMBDA c : D(c).c)

\* lines 102-113 and 276-279
RunAlgo(r) ==
    /\ pc[r] = "request"
    /\ ref' = [ref EXCEPT ![r] = NewContext(r)]
    /\ ctx' = [ctx EXCEPT ![NewContext(r)] = TradingContext]
    /\ alone' = [alone EXCEPT ![r] = TradingContext]
    /\ startq' = [startq EXCEPT ![r] = StartNodes(payload[r].nodes)]
    /\ pc' = [pc EXCEPT ![r] = IF StartNodes(payload[r].nodes) = <<>> THEN "rejected" ELSE "walk"]
    /\ UNCHANGED <<payload, calls, visited, cur, resolved>>

\* the visited set of the walk of one START node: execute_from_node(start_id)
\* passes none, so line 118 makes a new one
WalkVisited(old) == {}

\* a run that gives the walk of each START node a context of its own
ForStartFresh(r) ==
    /\ pc[r] = "walk" /\ calls[r] = <<>> /\ startq[r] # <<>>
    /\ calls' = [calls EXCEPT ![r] = <<Call(Head(startq[r]))>>]
    /\ startq' = [startq EXCEPT ![r] = Tail(@)]
    /\ visited' = [visited EXCEPT ![r] = WalkVisited(@)]
    /\ ctx' = [ctx EXCEPT ![ref[r]] = TradingContext]
    /\ alone' = [alone EXCEPT ![r] = TradingContext]
    /\ UNCHANGED <<payload, pc, ref, cur, resolved>>

\* lines 281-282: the next START node
ForStart(r) ==
    /\ pc[r] = "walk" /\ calls[r] = <<>> /\ startq[r] # <<>>
    /\ calls' = [calls EXCEPT ![r] = <<Call(Head(startq[r]))>>]
    /\ startq' = [startq EXCEPT ![r] = Tail(@)]
    /\ visited' = [visited EXCEPT ![r] = WalkVisited(@)]
    /\ UNCHANGED <<payload, pc, ref, ctx, alone, cur, resolved>>

\* lines 284-289
Return(r) ==
    /\ pc[r] = "walk" /\ calls[r] = <<>> /\ startq[r] = <<>>
    /\ pc' = [pc EXCEPT ![r] = "done"]
    /\ UNCHANGED <<payload, ref, ctx, alone, startq, calls, visited, cur, resolved>>

\* lines 120-121: the call returns at once
Revisit(r) ==
    /\ Calling(r) /\ Id(r) \in visited[r]
    /\ calls' = [calls EXCEPT ![r] = Tail(@)]
    /\ UNCHANGED <<payload, pc, ref, ctx, alone, startq, visited, cur, resolved>>

DispatchStart(r) == Entering(r, "START") /\ Continue(r, LAMBDA c : DoStart(c, Id(r)))

DispatchVariable(r) ==
    Entering(r, "VARIABLE") /\ Continue(r, LAMBDA c : DoVariable(c, Id(r), DataOf(r)))

DispatchMath(r) == Entering(r, "MATH") /\ Continue(r, LAMBDA c : DoMath(c, Id(r), DataOf(r)))

DispatchSetBudget(r) ==
    Entering(r, "SET_BUDGET") /\ Continue(r, LAMBDA c : DoSetBudget(c, Id(r), DataOf(r)))

DispatchOutput(r) ==
    Entering(r, "OUTPUT") /\ Continue(r, LAMBDA c : DoOutput(c, Id(r), DataOf(r)))

(***************************************************************************)
(* The collaborators: the price source, random.choice(news), the score     *)
(***************************************************************************)
\* the Close prices the price source may return
Prices == {Q(1), Q(2)}

\* the pool of line 193
News == {<<"M", "a", "r", "k", "e", "t", " ", "b", "u", "l", "l", "i", "s", "h", " ", "o", "n", " ", "E", "T", "F", " ", "n", "e", "w", "s">>,
         <<"R", "e", "g", "u", "l", "a", "t", "o", "r", "y", " ", "F", "U", "D", " ", "s", "p", "r", "e", "a", "d", "i", "n", "g">>,
         <<"I", "n", "s", "t", "i", "t", "u", "t", "i", "o", "n", "a", "l", " ", "w", "h", "a", "l", "e", " ", "b", "u", "y", " ", "d", "e", "t", "e", "c", "t", "e", "d">>}

\* the scores of lines 212-217, within [-1, 1]
Scores == {Q(-1), Q(0), Rat(1, 2), Q(1)}

\* lines 185-190 when the price source answers
DispatchScrape(r) ==
    /\ Entering(r, "SCRAPE_BTC") \/ Entering(r, "SCRAPE_ETH")
    /\ \E price \in Prices : Continue(r, LAMBDA c : DoScrape(c, Id(r), DataOf(r), price))

\* line 187 when the price source raises
ScrapeRaises(r) ==
    /\ Entering(r, "SCRAPE_BTC") \/ Entering(r, "SCRAPE_ETH")
    /\ Raise(r, LAMBDA c : c)

DispatchNews(r) ==
    /\ Entering(r, "NEWS_SCRAPER")
    /\ \E selected_news \in News : Continue(r, LAMBDA c : DoNews(c, Id(r), selected_news))

DispatchLlm(r) ==
    /\ Entering(r, "SEND_TO_LLM")
    /\ \E score \in Scores : Continue(r, LAMBDA c : DoLlm(c, Id(r), score))

DispatchRisk(r) ==
    /\ Entering(r, "RISK_ANALYSIS")
    /\ Finish(r, LAMBDA c : DoRisk(c, Id(r), DataOf(r)))

DispatchTrade(r) ==
    /\ Entering(r, "BUY") \/ Entering(r, "SELL")
    /\ Finish(r, LAMBDA c : DoTrade(c, Id(r), DataOf(r)))

\* the categories the dispatch of lines 127-268 knows
Categories ==
    {"START", "VARIABLE", "MATH", "CONDITION", "SET_BUDGET", "SCRAPE_BTC", "SCRAPE_ETH",
     "NEWS_SCRAPER", "SEND_TO_LLM", "RISK_ANALYSIS", "BUY", "SELL", "OUTPUT"}

\* a node of any other category: no branch of the dispatch is taken
DispatchOther(r) ==
    /\ Calling(r) /\ Id(r) \notin visited[r]
    /\ DataOf(r).category \notin Categories
    /\ Continue(r, LAMBDA c : c)

(***************************************************************************)
(* CONDITION, lines 157-178.  evaluate_condition's while loop (lines       *)
(* 92-93) is a loop of steps: XorLoop is one iteration.                    *)
(***************************************************************************)
\* line 159
ConditionOf(r) == Strip(DataOf(r).condition)

\* line 178, and line 176 for the ValueError of evaluate_condition
Warned(c, id) == Log(c, Entry("CONDITION", "WARNING: No condition provided", None, id))

Failed(c, id) == Log(c, Entry("CONDITION", "ERROR: Condition evaluation error", None, id))

\* line 163, result 1 for True and 0 for False
Evaluated(c, id, result) == Log(c, Entry("CONDITION", "Evaluated", PyInt(result), id))

\* the node is dispatched and done with no call for its targets (line 271
\* leaves CONDITION out)
NoBranch(r, F(_)) ==
    /\ Entering(r, "CONDITION")
    /\ Update(r, F)
    /\ Visit(r)
    /\ calls' = [calls EXCEPT ![r] = Tail(@)]
    /\ UNCHANGED <<payload, pc, ref, startq, cur, resolved>>

\* line 178: no condition
ConditionEmpty(r) ==
    /\ Entering(r, "CONDITION")
    /\ ConditionOf(r) = <<>>
    /\ NoBranch(r, LAMBDA c : Warned(c, Id(r)))

\* lines 161 and 77: replace_variables raises, line 176 logs it
ConditionUnresolved(r) ==
    /\ Entering(r, "CONDITION")
    /\ ConditionOf(r) # <<>>
    /\ ~ConditionResolved(ConditionOf(r), Ctx(r).vars).ok
    /\ NoBranch(r, LAMBDA c : Failed(c, Id(r)))

\* lines 161 and 77-91: evaluate_condition reaches its while loop
ConditionEnter(r) ==
    /\ Entering(r, "CONDITION")
    /\ ConditionOf(r) # <<>>
    /\ ConditionResolved(ConditionOf(r), Ctx(r).vars).ok
    /\ resolved' = [resolved EXCEPT ![r] = ConditionResolved(ConditionOf(r), Ctx(r).vars).s]
    /\ cur' = [cur EXCEPT ![r] = Id(r)]
    /\ pc' = [pc EXCEPT ![r] = "xor"]
    /\ Visit(r)
    /\ calls' = [calls EXCEPT ![r] = Tail(@)]
    /\ UNCHANGED <<payload, ref, ctx, alone, startq>>

\* lines 92-93: one iteration of the while loop
XorLoop(r) ==
    /\ pc[r] = "xor"
    /\ HasXor(resolved[r])
    /\ resolved' = [resolved EXCEPT ![r] = XorSub(@)]
    /\ UNCHANGED <<payload, pc, ref, ctx, alone, startq, calls, visited, cur>>

\* lines 96-99 and 175-176: eval raises
ConditionRaises(r) ==
    /\ pc[r] = "xor"
    /\ ~HasXor(resolved[r])
    /\ ConditionEval(resolved[r]).st # "ok"
    /\ Update(r, LAMBDA c : Failed(c, cur[r]))
    /\ pc' = [pc EXCEPT ![r] = "walk"]
    /\ UNCHANGED <<payload, ref, startq, calls, visited, cur, resolved>>

\* lines 162-171: the calls of the loop, and the except clause they are made under
Branch(r, result) ==
    /\ Update(r, LAMBDA c : Evaluated(c, cur[r], result))
    /\ calls' = [calls EXCEPT ![r] =
                     Calls(Branches(payload[r].edges, cur[r], result = 1))
                       \o <<Handler(cur[r])>> \o @]

\* lines 96-97 and 162-171: the condition has a value, the walk takes its branch
ConditionBranch(r) ==
    /\ pc[r] = "xor"
    /\ ~HasXor(resolved[r])
    /\ ConditionEval(resolved[r]).st = "ok"
    /\ Branch(r, ConditionEval(resolved[r]).v)
    /\ pc' = [pc EXCEPT ![r] = "walk"]
    /\ UNCHANGED <<payload, ref, startq, visited, cur, resolved>>

\* line 173: the loop of the CONDITION node is over; its try block ends
ConditionReturn(r) ==
    /\ pc[r] = "walk" /\ calls[r] # <<>> /\ Head(calls[r]).k = "except"
    /\ calls' = [calls EXCEPT ![r] = Tail(@)]
    /\ UNCHANGED <<payload, pc, ref, ctx, alone, startq, visited, cur, resolved>>

Step(r) ==
    \/ RunAlgo(r)
    \/ ForStart(r)
    \/ Return(r)
    \/ Revisit(r)
    \/ DispatchStart(r)
    \/ DispatchVariable(r)
    \/ DispatchMath(r)
    \/ DispatchSetBudget(r)
    \/ DispatchScrape(r)
    \/ ScrapeRaises(r)
    \/ DispatchNews(r)
    \/ DispatchLlm(r)
    \/ DispatchRisk(r)
    \/ DispatchTrade(r)
    \/ DispatchOutput(r)
    \/ DispatchOther(r)
    \/ ConditionEmpty(r)
    \/ ConditionUnresolved(r)
    \/ ConditionEnter(r)
    \/ XorLoop(r)
    \/ ConditionRaises(r)
    \/ ConditionBranch(r)
    \/ ConditionReturn(r)

Next == \E r \in Runs : Step(r)

(***************************************************************************)
(* The requests of the model                                               *)
(***************************************************************************)
\* the longest chain of SET_BUDGET / MATH / BUY / SELL nodes after a START
MaxChain == 3

\* the most edges of a graph over TopoIds
MaxTopoEdges == 3

\* the most outgoing edges of the CONDITION node of a branching graph
MaxCondEdges == 2

Graph(nodes, edges) == [nodes |-> nodes, edges |-> edges]

\* the sequences over S of length <= n
SeqsUpTo(S, n) == UNION {[1..k -> S] : k \in 0..n}

\* the orders in which the elements of S can be listed
Orders(S) == {f \in [1..Cardinality(S) -> S] : \A i, j \in 1..Cardinality(S) : f[i] = f[j] => i = j}

\* n1 -> n2 -> ... with no handles
ChainEdges(n) == [i \in 1..(n - 1) |-> Edge(i, i + 1, "none")]

\* texts
T_2 == <<"2">>

T_M1 == <<"-", "1">>

T_1 == <<"1">>

T_0 == <<"0">>

T_X == <<"x">>

T_Y == <<"y">>

T_N == <<"n">>

T_OPEN == <<"(">>

T_XSP == <<" ", "x", " ">>

T_05 == <<"0", ".", "5">>

Start == Data("START")

Variable(name) == [Data("VARIABLE") EXCEPT !.variableName = name]

Output(name) == [Data("OUTPUT") EXCEPT !.variableName = name]

Math(expression) == [Data("MATH") EXCEPT !.expression = expression]

Condition(condition) == [Data("CONDITION") EXCEPT !.condition = condition]

SetBudget(v) == [Data("SET_BUDGET") EXCEPT !.manualValue = v]

Trade(cat, ticker, v) == [Data(cat) EXCEPT !.ticker = ticker, !.manualValue = v]

Risk(inputs) == [Data("RISK_ANALYSIS") EXCEPT !.riskInputs = inputs]

RiskInput(value, weight) == [value |-> value, weight |-> weight]

\* ---- chains of wallet operations
TradeMenu ==
    {SetBudget(PyInt(2)), SetBudget(PyInt(-1)),
     Math(T_2), Math(T_M1),
     Trade("BUY", "BTC", PyInt(1)), Trade("BUY", "BTC", PyInt(-1)), Trade("BUY", "DOGE", PyInt(1)),
     Trade("SELL", "BTC", PyInt(1)), Trade("SELL", "BTC", PyInt(-1)), Trade("SELL", "ETH", None)}

ChainGraphs ==
    {Graph(<<Node(1, Start)>> \o [i \in 1..Len(ops) |-> Node(i + 1, ops[i])],
           ChainEdges(Len(ops) + 1)) : ops \in SeqsUpTo(TradeMenu, MaxChain) \ {<<>>}}

\* ---- every small topology: any edge list over three nodes, with or without START nodes
TopoIds == {1, 2, 3}

TopoEdges == {Edge(s, t, "none") : s, t \in TopoIds}

TopoGraphs ==
    {Graph(<<Node(1, c1), Node(2, c2), Node(3, Output(T_X))>>, es) :
        c1, c2 \in {Start, Output(T_X)}, es \in SeqsUpTo(TopoEdges, MaxTopoEdges)}

\* ---- the diamond A -> B, A -> C, B -> D, C -> D, its edges listed in any order
DiamondEdges == {Edge(1, 2, "none"), Edge(1, 3, "none"), Edge(2, 4, "none"), Edge(3, 4, "none")}

DiamondGraphs ==
    {Graph(<<Node(1, Start), Node(2, b), Node(3, c), Node(4, d)>>, es) :
        b \in {Math(T_2), SetBudget(PyInt(1))},
        c \in {Math(T_M1), Output(T_X)},
        d \in {Variable(T_X), Trade("BUY", "BTC", PyInt(1))},
        es \in Orders(DiamondEdges)}

\* ---- a CONDITION node with any list of outgoing edges
BranchEdges == {Edge(2, t, h) : t \in {2, 3, 4}, h \in {"yes", "no", "none"}}

BranchGraphs ==
    {Graph(<<Node(1, Start), Node(2, Condition(cond)), Node(3, Output(T_X)),
             Node(4, Math(T_2))>>,
           <<Edge(1, 2, "none")>> \o es \o <<Edge(3, 4, "none")>>) :
        cond \in {T_1, T_0, <<>>, T_OPEN}, es \in SeqsUpTo(BranchEdges, MaxCondEdges)}

\* ---- conditions over a variable: START -> SET_BUDGET v -> VARIABLE x -> CONDITION
Conditions ==
    {<<"{", "x", "}">>,
     <<"!", "{", "x", "}">>,
     <<"{", "x", "}", " ", "^", "^", " ", "0">>,
     <<"{", "x", "}", " ", "^", "^", " ", "{", "x", "}", " ", "^", "^", " ", "1">>,
     <<"(", "{", "x", "}", " ", "^", "^", " ", "1", ")", " ", "^", "^", " ", "0">>,
     <<"!", "(", "{", "x", "}", " ", ">", " ", "0", ")", " ", "|", "|", " ", "{", "x", "}", " ", "=", "=", " ", "1">>,
     <<"{", "x", "}", " ", "&", "&", " ", "!", "0">>,
     <<"{", "q", "}", " ", ">", " ", "0">>,
     <<"{", "x", "}", " ", ">">>,
     <<" ", " ">>,
     <<"{", "x", "}", " ", "!", "=", " ", "1">>,
     <<"1", " ", "^", "^", " ", "{", "x", "}">>}

CondGraphs ==
    {Graph(<<Node(1, Start), Node(2, SetBudget(v)), Node(3, Variable(T_X)),
             Node(4, Condition(cond)), Node(5, Output(T_X)), Node(6, Math(T_2)),
             Node(7, Variable(T_Y))>>,
           ChainEdges(4) \o <<Edge(4, 5, "yes"), Edge(4, 6, "no"), Edge(4, 7, "none"),
                              Edge(6, 7, "none")>>) :
        v \in {PyInt(1), PyInt(0), PyInt(-1), None}, cond \in Conditions}

\* ---- expressions: START -> SET_BUDGET 2 -> VARIABLE x -> MATH -> VARIABLE y, BUY
Expressions ==
    {<<"{", "x", "}", " ", "+", " ", "1">>,
     <<"{", "x", "}", " ", "*", " ", "{", "x", "}", " ", "-", " ", "5">>,
     <<"{", "q", "}">>,
     <<"1", "/", "0">>,
     <<"(">>,
     <<>>,
     <<"a", "b", "s", "(", "0", " ", "-", " ", "{", "x", "}", ")">>,
     <<"-", "1">>,
     <<"f", "o", "o">>,
     <<" ", "2", " ">>}

MathGraphs ==
    {Graph(<<Node(1, Start), Node(2, first), Node(3, Variable(T_XSP)),
             Node(4, Math(e)), Node(5, Variable(T_Y)), Node(6, Trade("BUY", "ETH", PyInt(1)))>>,
           ChainEdges(4) \o <<Edge(4, 5, "none"), Edge(4, 6, "none"), Edge(5, 6, "none")>>) :
        first \in {SetBudget(PyInt(2)), Data("NEWS_SCRAPER")}, e \in Expressions}

\* ---- the collaborators, RISK_ANALYSIS, a node of no known category
ProviderGraphs ==
    {Graph(<<Node(1, Start), Node(2, SetBudget(PyInt(2))), Node(3, Data("SCRAPE_BTC")),
             Node(4, Trade("BUY", "BTC", PyInt(1))), Node(5, Data("SCRAPE_ETH")),
             Node(6, Trade("SELL", "BTC", PyInt(1)))>>, ChainEdges(6)),
     Graph(<<Node(1, Start), Node(2, Data("NEWS_SCRAPER")), Node(3, Variable(T_N)),
             Node(4, [Data("SEND_TO_LLM") EXCEPT !.variableName = T_N]), Node(5, Variable(T_X)),
             Node(6, Risk(<<RiskInput(T_X, PyInt(2)), RiskInput(T_05, PyInt(1))>>)),
             Node(7, Variable(T_Y)), Node(8, Output(T_Y))>>, ChainEdges(8)),
     Graph(<<Node(1, Start), Node(2, Data("NEWS_SCRAPER")), Node(3, Variable(T_N)),
             Node(4, Risk(<<RiskInput(T_N, PyInt(1))>>)), Node(5, Output(T_N))>>, ChainEdges(5)),
     Graph(<<Node(1, Start), Node(2, Math(T_1)), Node(3, Variable(T_X)),
             Node(4, Risk(<<RiskInput(T_X, PyInt(2)), RiskInput(T_05, PyInt(1))>>)),
             Node(5, Data("NOTE")), Node(6, Variable(T_Y))>>, ChainEdges(6)),
     Graph(<<Node(1, Start), Node(2, Risk(<<RiskInput(T_2, PyInt(1)), RiskInput(T_N, PyInt(-2))>>)),
             Node(3, Risk(<<RiskInput(T_M1, PyInt(1))>>)), Node(4, Risk(<<>>))>>, ChainEdges(4))}

\* ---- a target of a CONDITION node that raises: START -> NEWS -> VARIABLE n ->
\* ---- CONDITION -yes-> inner -> the target, then OUTPUT; CONDITION -yes-> OUTPUT;
\* ---- and the START node's next target, a MATH node.  inner is a second
\* ---- CONDITION, a START or an OUTPUT node.
Raising ==
    {Trade("BUY", "DOGE", PyInt(1)), Trade("SELL", "DOGE", PyInt(1)), Data("SCRAPE_ETH"),
     Risk(<<RiskInput(T_N, PyInt(1))>>), Trade("BUY", "BTC", None)}

GuardedGraphs ==
    {Graph(<<Node(1, Start), Node(2, Data("NEWS_SCRAPER")), Node(3, Variable(T_N)),
             Node(4, Condition(T_1)), Node(5, inner), Node(6, target), Node(7, Output(T_N)),
             Node(8, Math(T_2))>>,
           <<Edge(1, 2, "none"), Edge(2, 3, "none"), Edge(3, 4, "none"), Edge(4, 5, "yes"),
             Edge(5, 6, "yes"), Edge(5, 6, "none"), Edge(5, 7, "yes"), Edge(4, 7, "yes"),
             Edge(1, 8, "none")>>) :
        inner \in {Condition(T_1), Start, Output(T_N)}, target \in Raising}

\* ---- two START nodes, listed in either order: one walk sets the budget and
\* ---- x, the other buys and prints x
StartsGraphs ==
    {Graph(starts \o <<Node(2, SetBudget(PyInt(2))), Node(3, Variable(T_X)),
                       Node(4, Output(T_X)), Node(6, Trade("BUY", "BTC", PyInt(1)))>>,
           <<Edge(5, 2, "none"), Edge(2, 3, "none"), Edge(3, 4, "none"), Edge(1, 6, "none"),
             Edge(6, 4, "none")>>) :
        starts \in {<<Node(1, Start), Node(5, Start)>>, <<Node(5, Start), Node(1, Start)>>}}

\* ---- VARIABLE nodes: y is stored, x is stored twice, then nothing is there
\* ---- to store, then there is no name
StoreGraphs ==
    {Graph(<<Node(1, Start), Node(2, Math(T_2)), Node(3, Variable(T_Y)), Node(4, Math(T_2)),
             Node(5, Variable(T_XSP)), Node(6, Math(T_M1)), Node(7, Variable(T_X)),
             Node(8, Variable(T_X)), Node(9, Math(T_1)), Node(10, Variable(blank)),
             Node(11, Output(T_X))>>, ChainEdges(11)) : blank \in {<<>>, <<" ", " ">>}}

Payloads ==
    ChainGraphs \cup TopoGraphs \cup DiamondGraphs \cup BranchGraphs \cup CondGraphs
      \cup MathGraphs \cup ProviderGraphs \cup GuardedGraphs \cup StartsGraphs
      \cup StoreGraphs

\* no request
NoPayload == Graph(<<>>, <<>>)

(***************************************************************************)
(* One request in flight                                                   *)
(***************************************************************************)
Init ==
    /\ payload \in {[r \in Runs |-> IF r = 1 THEN g ELSE NoPayload] : g \in Payloads}
    /\ pc = [r \in Runs |-> IF r = 1 THEN "request" ELSE "idle"]
    /\ ref = [r \in Runs |-> 0]
    /\ ctx = [i \in CtxIds |-> TradingContext]
    /\ startq = [r \in Runs |-> <<>>]
    /\ calls = [r \in Runs |-> <<>>]
    /\ visited = [r \in Runs |-> {}]
    /\ cur = [r \in Runs |-> 0]
    /\ resolved = [r \in Runs |-> <<>>]
    /\ alone = [r \in Runs |-> TradingContext]

Spec == Init /\ [][Next]_vars

(***************************************************************************)
(* Two requests in flight, their steps interleaved                         *)
(***************************************************************************)
ConcPayloads ==
    {Graph(<<Node(1, Start), Node(2, SetBudget(PyInt(2))), Node(3, Data("SCRAPE_BTC")),
             Node(4, Trade("BUY", "BTC", PyInt(1))), Node(5, Variable(T_X)),
             Node(6, Data("NOTE")), Node(7, Start)>>,
           ChainEdges(6) \o <<Edge(7, 2, "none")>>),
     Graph(<<Node(1, Start), Node(2, Data("NEWS_SCRAPER")), Node(3, Variable(T_N)),
             Node(4, Data("SEND_TO_LLM")), Node(5, Variable(T_X)),
             Node(6, Risk(<<RiskInput(T_X, PyInt(2)), RiskInput(T_05, PyInt(1))>>)),
             Node(7, Output(T_N))>>, ChainEdges(7) \o <<Edge(7, 1, "none")>>),
     Graph(<<Node(1, Start), Node(2, Math(T_1)), Node(3, Variable(T_X)),
             Node(4, Condition(<<"{", "x", "}", " ", "^", "^", " ", "0">>)),
             Node(5, Condition(<<>>)), Node(6, Condition(<<"{", "q", "}">>)),
             Node(7, Condition(T_OPEN)), Node(8, Output(T_X))>>,
           ChainEdges(4) \o <<Edge(4, 5, "yes"), Edge(4, 8, "no"), Edge(3, 6, "none"),
                              Edge(3, 7, "none"), Edge(3, 8, "none")>>),
     Graph(<<Node(1, Output(T_X))>>, <<>>)}

InitConc ==
    /\ payload \in [Runs -> ConcPayloads]
    /\ pc = [r \in Runs |-> "request"]
    /\ ref = [r \in Runs |-> 0]
    /\ ctx = [i \in CtxIds |-> TradingContext]
    /\ startq = [r \in Runs |-> <<>>]
    /\ calls = [r \in Runs |-> <<>>]
    /\ visited = [r \in Runs |-> {}]
    /\ cur = [r \in Runs |-> 0]
    /\ resolved = [r \in Runs |-> <<>>]
    /\ alone = [r \in Runs |-> TradingContext]

SpecConc == InitConc /\ [][Next]_vars

(***************************************************************************)
(* Properties                                                              *)
(***************************************************************************)
\* run r has made its context
Made(r) == ref[r] # 0

Ended(r) == pc[r] \in {"done", "rejected", "crashed"}

NonNegative(q) == QLe(Q(0), q)

\* C1: in every reachable state of every run, the budget and the holdings
\* of every asset are >= 0, whatever the SET_BUDGET, BUY and SELL nodes, their
\* amounts and the prices.
C1_NeverNegative ==
    \A r \in Runs :
        Made(r) =>
            /\ NonNegative(Ctx(r).budget)
            /\ \A a \in DOMAIN Ctx(r).holdings : NonNegative(Ctx(r).holdings[a])

\* the log entries the dispatch of node id wrote itself (line 176 also
\* writes the CONDITION node's entry for the exception of a target)
DispatchesOf(logs, id) ==
    {i \in 1..Len(logs) : logs[i].node = id /\ logs[i].msg # "ERROR: exception of a target"}

\* C2: across a whole run (the walks of all its START nodes) each node id is
\* dispatched at most once: a node dispatched under an earlier START is
\* skipped when a later START reaches it.
C2_OncePerRun ==
    \A r \in Runs :
        Made(r) =>
            \A i \in 1..Len(Ctx(r).logs) :
                Cardinality(DispatchesOf(Ctx(r).logs, Ctx(r).logs[i].node)) <= 1

\* what run r holds apart from its pending calls
Effects(r) == <<Ctx(r), visited[r], pc[r], startq[r]>>

\* the next call of run r is for a node its walk has visited, and r makes it
RevisitStep(r) == Calling(r) /\ Id(r) \in visited[r] /\ calls'[r] # calls[r]

\* the entries of node id in the log of run r
EntriesOf(r, id) == {i \in 1..Len(Ctx(r).logs) : Ctx(r).logs[i].node = id}

\* the request of run r is a diamond A -> B, A -> C, B -> D, C -> D (D is node 4)
Diamond(r) ==
    /\ Len(payload[r].nodes) = 4
    /\ {payload[r].edges[i] : i \in 1..Len(payload[r].edges)} = DiamondEdges

\* C3: within one walk, a call for a node already in visited is a no-op: it
\* appends no log entry and leaves variables, budget, holdings, last_output
\* (and the visited set) as they are, the call just returns; and the run of
\* a diamond graph ends with exactly one log entry for D.
C3_RevisitNoOp ==
    /\ [][\A r \in Runs :
            RevisitStep(r) => Effects(r)' = Effects(r) /\ calls'[r] = Tail(calls[r])]_vars
    /\ [](\A r \in Runs : pc[r] = "done" /\ Diamond(r) => Cardinality(EntriesOf(r, 4)) = 1)

\* a diamond's run is over: D was reached twice and has its one entry
C3_Witness ==
    /\ pc[1] = "done"
    /\ Diamond(1)
    /\ Cardinality(EntriesOf(1, 4)) = 1
    /\ Len(Ctx(1).logs) = 4

\* the last entry of the log of run r
LastEntry(r) == Ctx(r).logs[Len(Ctx(r).logs)]

\* run r has the value of the condition of node cur[r] and logs it (line 163)
BranchStep(r) ==
    /\ pc[r] = "xor"
    /\ pc'[r] = "walk"
    /\ Len(Ctx(r)'.logs) = Len(Ctx(r).logs) + 1
    /\ LastEntry(r)'.msg = "Evaluated"

\* the edges of run r's request from node id with handle h, as positions in the edge list
EdgesFrom(r, id, h) ==
    {i \in 1..Len(payload[r].edges) :
        payload[r].edges[i].source = id /\ payload[r].edges[i].handle = h}

\* cs is, in edge order, one call for the target of each edge of E
CallsFor(r, cs, E) ==
    /\ Len(cs) = Cardinality(E)
    /\ \A i \in E :
          cs[Cardinality({j \in E : j <= i})] = [k |-> "call", id |-> payload[r].edges[i].target]

\* the calls a step of run r has put before the n calls it left pending
NewCalls(r, n) == SubSeq(calls'[r], 1, Len(calls'[r]) - n)

\* the handle of the branch of a condition whose logged value is v
HandleOf(v) == IF v = PyInt(1) THEN "yes" ELSE "no"

\* in a finished run with one START node, every target of a matching edge
\* of every CONDITION node that logged a value has been entered
BranchesEntered(r) ==
    \A i \in 1..Len(Ctx(r).logs) :
        Ctx(r).logs[i].msg = "Evaluated" =>
            \A e \in EdgesFrom(r, Ctx(r).logs[i].node, HandleOf(Ctx(r).logs[i].v)) :
                payload[r].edges[e].target \in visited[r]

\* C4: when a CONDITION node's condition evaluates to a boolean, the calls
\* the node sets out to make are, in edge order, for exactly the targets of
\* its outgoing edges with handle "yes" if the value is true and "no" if it
\* is false: none for an edge with the other handle or with no handle, never
\* for both branches, and no call of the generic successor step (the
\* condition 1 is true and the condition 0 is false); and the walk does
\* recurse into every one of these targets.
C4_MatchingBranch ==
    /\ [][\A r \in Runs :
            BranchStep(r) =>
                /\ LastEntry(r)'.v \in {PyInt(0), PyInt(1)}
                /\ LastEntry(r)'.node = cur[r]
                /\ NodeData(payload[r].nodes, cur[r]).condition = T_1 => LastEntry(r)'.v = PyInt(1)
                /\ NodeData(payload[r].nodes, cur[r]).condition = T_0 => LastEntry(r)'.v = PyInt(0)
                /\ CallsFor(r, NewCalls(r, Len(calls[r]) + 1),
                            EdgesFrom(r, cur[r], HandleOf(LastEntry(r)'.v)))
                /\ SubSeq(calls'[r], Len(calls'[r]) - Len(calls[r]) + 1, Len(calls'[r])) = calls[r]
                /\ calls'[r][Len(calls'[r]) - Len(calls[r])].k = "except"]_vars
    /\ [](\A r \in Runs :
            pc[r] = "done" /\ Len(StartNodes(payload[r].nodes)) = 1 => BranchesEntered(r))

\* no node of the request of run r has category START
NoStart(r) ==
    \A i \in 1..Len(payload[r].nodes) : payload[r].nodes[i].data.category # "START"

\* C5: a request whose graph has no node of category START is rejected
\* (HTTP 400) with nothing dispatched: no log entry, budget, holdings and
\* variables as constructed, no node visited; and a request whose graph has
\* a START node is never rejected and never ends before a node has executed:
\* when it returns or fails, its START node has been dispatched first.
C5_RejectedUntouched ==
    \A r \in Runs :
        Made(r) =>
            /\ pc[r] = "rejected" <=> NoStart(r)
            /\ pc[r] = "rejected" =>
                  /\ Ctx(r) = TradingContext
                  /\ Ctx(r).logs = <<>>
                  /\ visited[r] = {}
                  /\ calls[r] = <<>>
            /\ pc[r] \in {"done", "crashed"} =>
                  /\ Ctx(r).logs # <<>>
                  /\ Ctx(r).logs[1].tag = "START"
                  /\ visited[r] # {}

\* a request with nodes and edges but no START node has been rejected
C5_Witness ==
    /\ pc[1] = "rejected"
    /\ Len(payload[1].nodes) >= 2
    /\ payload[1].edges # <<>>

\* the expressions of the requests that Python cannot evaluate
Unevaluable == {<<"1", "/", "0">>, <<"(">>, <<"f", "o", "o">>}

\* expression is empty, refers to a variable that c does not have, or cannot be evaluated
BadExpression(c, expression) ==
    \/ Strip(expression) = <<>>
    \/ \E name \in VarRefs(expression) : name \notin DOMAIN c.vars
    \/ expression \in Unevaluable

\* run r dispatches the MATH node at the head of its calls
MathStep(r) ==
    /\ pc[r] = "walk"
    /\ calls[r] # <<>>
    /\ Head(calls[r]).k = "call"
    /\ Head(calls[r]).id \notin visited[r]
    /\ NodeData(payload[r].nodes, Head(calls[r]).id).category = "MATH"
    /\ visited'[r] # visited[r]

\* all the edges of run r's request from node id, as positions in the edge list
AllEdgesFrom(r, id) ==
    {i \in 1..Len(payload[r].edges) : payload[r].edges[i].source = id}

\* the category of the node at which run r failed
FailedAt(r) == NodeData(payload[r].nodes, Head(calls[r]).id).category

C7_FailuresIsolated ==
    \A r \in Runs :
        /\ pc[r] = "crashed" => FailedAt(r) \notin {"MATH", "CONDITION", "BUY", "SELL"}
        /\ pc[r] = "done" /\ Len(StartNodes(payload[r].nodes)) = 1 =>
              \A n \in visited[r] :
                  NodeData(payload[r].nodes, n).category # "CONDITION" =>
                      \A e \in AllEdgesFrom(r, n) : payload[r].edges[e].target \in visited[r]

\* the number of positions of s where ^^ begins
CountXor(s) == Cardinality({i \in 1..(Len(s) - 1) : s[i] = "^" /\ s[i + 1] = "^"})

\* the ids of the nodes of run r's request not visited in its present walk
Unvisited(r) == {payload[r].nodes[i].id : i \in 1..Len(payload[r].nodes)} \ visited[r]

\* what is left of run r: the call of run_algo, the START nodes to come, the
\* nodes to visit, the ^^ to rewrite, the calls to return from
Measure(r) ==
    << CASE pc[r] = "request" -> 2
         [] pc[r] \in {"walk", "xor"} -> 1
         [] OTHER -> 0,
       Len(startq[r]),
       Cardinality(Unvisited(r)),
       IF pc[r] = "xor" THEN 1 + CountXor(resolved[r]) ELSE 0,
       Len(calls[r]) >>

\* a comes before b in the lexicographic order of tuples of naturals
LexLess(a, b) ==
    \E k \in 1..Len(a) : a[k] < b[k] /\ \A m \in 1..(k - 1) : a[m] = b[m]

\* the part of the state that belongs to run r
RunState(r) ==
    <<pc[r], ref[r], startq[r], calls[r], visited[r], cur[r], resolved[r], alone[r]>>

\* run r is at the head of the XOR loop with a text that an iteration leaves as it is
Spinning(r) ==
    pc[r] = "xor" /\ HasXor(resolved[r]) /\ XorSub(resolved[r]) = resolved[r]

\* C8: a run of run_algo comes to an end for every graph: each step that
\* changes the state of the run takes it down a well-founded order (the START
\* nodes to come, then the nodes not yet visited in the walk, then the ^^ left
\* to rewrite, then the pending calls), so that the visited set bounds the
\* traversal, and the run is never at a step that it repeats for ever
\* without a change of state.
C8_RunTerminates ==
    /\ [][\A r \in Runs :
            RunState(r)' # RunState(r) => LexLess(Measure(r)', Measure(r))]_vars
    /\ [](\A r \in Runs : ~Spinning(r))

\* C9: every iteration of the XOR loop of evaluate_condition (line 93)
\* rewrites an occurrence of ^^, so that the loop, which runs while ^^ is in
\* the text, comes to an end.
C9_XorLoopProgress ==
    \A r \in Runs : pc[r] = "xor" /\ HasXor(resolved[r]) => XorSub(resolved[r]) # resolved[r]

\* C10: with two requests in flight, their dispatches interleaved in any
\* order, each run has a context object of its own, and at every moment its
\* logs, budget, holdings, vars and last_output are those of the same run
\* executing alone.
C10_RunsIsolated ==
    /\ \A r \in Runs : Made(r) => Ctx(r) = alone[r]
    /\ Made(1) /\ Made(2) => ref[1] # ref[2]

\* both runs are in the middle of their walks, each having written to its
\* own context, and the contexts differ
C10_Witness ==
    /\ pc[1] = "walk" /\ pc[2] = "walk"
    /\ calls[1] # <<>> /\ calls[2] # <<>>
    /\ Len(Ctx(1).logs) >= 2 /\ Len(Ctx(2).logs) >= 2
    /\ Ctx(1).budget # Ctx(2).budget

\* the positions of the START nodes in the nodes array of run r's request
StartPositions(r) ==
    {i \in 1..Len(payload[r].nodes) : payload[r].nodes[i].data.category = "START"}

\* the id of the k-th START node of the nodes array
KthStart(r, k) ==
    LET i == CHOOSE j \in StartPositions(r) : Cardinality({m \in StartPositions(r) : m <= j}) = k
    IN  payload[r].nodes[i].id

\* the number of walks run r has begun
WalksBegun(r) == Cardinality(StartPositions(r)) - Len(startq[r])

\* run r begins the walk of its next START node
WalkBegins(r) == pc[r] = "walk" /\ Len(startq'[r]) < Len(startq[r])

\* C11: the START nodes are walked in the order of the nodes array (the
\* walks still to come are those of the later START nodes, in that order);
\* a walk begins only when the walk before it has returned from its last
\* call, on the context that walk left: beginning a walk changes neither
\* logs, budget, holdings, vars nor last_output, so the log of the earlier
\* walk comes first.
C11_StartsInOrder ==
    /\ [](\A r \in Runs :
            Made(r) =>
                /\ Len(startq[r]) <= Cardinality(StartPositions(r))
                /\ \A k \in 1..Len(startq[r]) : startq[r][k] = KthStart(r, WalksBegun(r) + k))
    /\ [][\A r \in Runs :
            WalkBegins(r) =>
                /\ calls[r] = <<>>
                /\ calls'[r] = <<[k |-> "call", id |-> KthStart(r, WalksBegun(r) + 1)]>>
                /\ startq'[r] = Tail(startq[r])
                /\ Ctx(r)' = Ctx(r)
                /\ WalksBegun(r) >= 1 => Ctx(r).logs # <<>>]_vars

\* the second walk begins, at the START node listed second (of lesser id
\* than the first), with the budget and the variable the first walk left
C11_Witness ==
    /\ pc[1] = "walk"
    /\ Cardinality(StartPositions(1)) = 2
    /\ startq[1] = <<>>
    /\ calls[1] = <<[k |-> "call", id |-> KthStart(1, 2)]>>
    /\ KthStart(1, 2) < KthStart(1, 1)
    /\ visited[1] = {}
    /\ Ctx(1).budget # Q(0)
    /\ DOMAIN Ctx(1).vars # {}

\* run r dispatches the node of category cat at the head of its calls
DispatchOf(r, cat) ==
    /\ pc[r] = "walk"
    /\ calls[r] # <<>>
    /\ Head(calls[r]).k = "call"
    /\ Head(calls[r]).id \notin visited[r]
    /\ NodeData(payload[r].nodes, Head(calls[r]).id).category = cat
    /\ visited'[r] # visited[r]

\* the value of an entry: the variable of that name if there is one, else
\* the number the text is a numeral of, else 0
EntryValue(item, variables) ==
    IF item.value \in DOMAIN variables
    THEN variables[item.value].q
    ELSE IF ParseFloat(item.value).ok THEN ParseFloat(item.value).q ELSE Q(0)

\* the weighted sum and the total of the weights of the entries from i on, added to acc
RECURSIVE WeightedSum(_, _, _, _)
WeightedSum(inputs, i, variables, acc) ==
    IF i > Len(inputs) THEN acc
    ELSE WeightedSum(inputs, i + 1, variables,
                     [sum |-> QAdd(acc.sum, QMul(EntryValue(inputs[i], variables), FloatOr0(inputs[i].weight))),
                      total |-> QAdd(acc.total, FloatOr0(inputs[i].weight))])

\* abs(sum / total) clamped to [0, 1], and 0 when total is 0
ClampedRatio(s) ==
    IF s.total = Q(0) THEN Q(0)
    ELSE IF QLt(QAbs(QDiv(s.sum, s.total)), Q(1)) THEN QAbs(QDiv(s.sum, s.total)) ELSE Q(1)

\* the score the entries of the RISK_ANALYSIS node at the head of run r's calls stand for
RiskScore(r) ==
    ClampedRatio(WeightedSum(NodeData(payload[r].nodes, Head(calls[r]).id).riskInputs, 1,
                             Ctx(r).vars, [sum |-> Q(0), total |-> Q(0)]))

\* C12: the dispatch of a RISK_ANALYSIS node sets last_output to the number
\* abs(weighted_sum / weight_total) clamped to [0, 1], and to 0 exactly when
\* weight_total is 0, for every list of entries, negative weights and a
\* negative weight_total included; the number is within [0, 1] and the run
\* stays in its walk.
C12_RiskScore ==
    [][\A r \in Runs :
          DispatchOf(r, "RISK_ANALYSIS") =>
              /\ pc'[r] = "walk"
              /\ IsNumber(Ctx(r)'.last_output)
              /\ Ctx(r)'.last_output.q = RiskScore(r)
              /\ QLe(Q(0), Ctx(r)'.last_output.q)
              /\ QLe(Ctx(r)'.last_output.q, Q(1))]_vars

\* run r dispatches the BUY or SELL node at the head of its calls
TradeStep(r) == DispatchOf(r, "BUY") \/ DispatchOf(r, "SELL")

\* what context c holds of the ticker
Held(c, ticker) == IF ticker \in DOMAIN c.holdings THEN c.holdings[ticker] ELSE Q(0)

\* the trade of category cat can be carried out in context c
Affordable(c, cat, ticker, a, cost) ==
    IF cat = "BUY" THEN QLe(cost, c.budget) ELSE QLe(a, Held(c, ticker))

\* the last entry of the log of context d, written by the step from context c
Appended(c, d) ==
    IF Len(d.logs) = Len(c.logs) + 1 THEN d.logs[Len(d.logs)].msg ELSE "nothing"

\* the step from context c to context d is the trade of amount a at cost a * p
TradeClaim(c, d, cat, ticker, a, cost) ==
    /\ Affordable(c, cat, ticker, a, cost) =>
          /\ d.budget = (IF cat = "BUY" THEN QSub(c.budget, cost) ELSE QAdd(c.budget, cost))
          /\ Held(d, ticker) = (IF cat = "BUY" THEN QAdd(Held(c, ticker), a) ELSE QSub(Held(c, ticker), a))
          /\ \A o \in DOMAIN c.holdings \ {ticker} : Held(d, o) = c.holdings[o]
          /\ Appended(c, d) = (IF cat = "BUY" THEN "BOUGHT" ELSE "SOLD")
    /\ ~Affordable(c, cat, ticker, a, cost) =>
          /\ d.budget = c.budget
          /\ d.holdings = c.holdings
          /\ Appended(c, d) = "FAILED: Insufficient funds or holdings"
    /\ d.budget # c.budget => Held(d, ticker) # Held(c, ticker)

\* the data of the node at the head of run r's calls
HeadData(r) == NodeData(payload[r].nodes, Head(calls[r]).id)

\* C13: a BUY of amount a at price p (last_output if a number, else 0)
\* succeeds exactly when a * p <= budget, and then takes a * p from the budget
\* and adds a to holdings[ticker]; a SELL succeeds exactly when
\* holdings[ticker] >= a, and then adds a * p to the budget and takes a from
\* holdings[ticker]; a trade that fails appends a failure entry and leaves the
\* budget and all holdings as they are; the budget never changes without the
\* holding of the ticker changing.  This for every ticker.
C13_TradeExact ==
    [][\A r \in Runs :
          TradeStep(r) =>
              TradeClaim(Ctx(r), Ctx(r)', HeadData(r).category, HeadData(r).ticker,
                         FloatOr0(HeadData(r).manualValue),
                         QMul(FloatOr0(HeadData(r).manualValue),
                              IF IsNumber(Ctx(r).last_output) THEN Ctx(r).last_output.q ELSE Q(0)))]_vars

\* the categories whose dispatch empties last_output
Consumers == {"START", "VARIABLE", "BUY", "SELL", "OUTPUT"}

\* C14: right after the dispatch of a START, VARIABLE, BUY, SELL or OUTPUT
\* node last_output is empty, whatever the node stored or traded; and the
\* dispatch of a CONDITION node, with the evaluation of its condition, leaves
\* last_output as it was.
C14_SingleSlot ==
    [][\A r \in Runs :
          /\ \A cat \in Consumers : DispatchOf(r, cat) => Ctx(r)'.last_output = None
          /\ DispatchOf(r, "CONDITION") \/ (pc[r] = "xor" /\ pc'[r] = "walk")
                => Ctx(r)'.last_output = Ctx(r).last_output]_vars

\* the name of the VARIABLE node at the head of run r's calls
NameOf(r) == Strip(HeadData(r).variableName)

\* the VARIABLE node at the head of run r's calls has a name and something to store
Storing(r) == NameOf(r) # <<>> /\ Ctx(r).last_output # None

\* C15: the dispatch of a VARIABLE node sets vars[name] to last_output
\* exactly when the name (without the blanks around it) is not empty and
\* last_output is not empty: an entry of that name is replaced, every other
\* entry stays, and no entry is removed.  Otherwise vars stays as it is and
\* the node appends a warning.
C15_VariableStore ==
    [][\A r \in Runs :
          DispatchOf(r, "VARIABLE") =>
              /\ Storing(r) =>
                    /\ DOMAIN Ctx(r)'.vars = DOMAIN Ctx(r).vars \cup {NameOf(r)}
                    /\ Ctx(r)'.vars[NameOf(r)] = Ctx(r).last_output
                    /\ \A k \in DOMAIN Ctx(r).vars \ {NameOf(r)} : Ctx(r)'.vars[k] = Ctx(r).vars[k]
                    /\ Appended(Ctx(r), Ctx(r)') = "Stored"
              /\ ~Storing(r) =>
                    /\ Ctx(r)'.vars = Ctx(r).vars
                    /\ Appended(Ctx(r), Ctx(r)') \in
                          {"WARNING: No variable name specified!", "WARNING: No data to store"}]_vars

\* x has been stored twice, the later value replacing the earlier, next to
\* y; then a node with nothing to store wrote a warning
C15_Witness ==
    /\ Made(1)
    /\ DOMAIN Ctx(1).vars = {T_X, T_Y}
    /\ Ctx(1).vars[T_X] = PyFloat(-1)
    /\ Ctx(1).vars[T_Y] = PyFloat(2)
    /\ Cardinality({i \in 1..Len(Ctx(1).logs) : Ctx(1).logs[i].msg = "Stored"}) = 3
    /\ LastEntry(1).msg = "WARNING: No data to store"

\* C16: the budget of a run's context changes only in the dispatch of a
\* SET_BUDGET, BUY or SELL node, and its holdings only in the dispatch of a
\* BUY or SELL node; every other step of the run, the dispatch of a node of
\* any other category included, leaves them as they are.
C16_WalletFrame ==
    [][\A r \in Runs :
          Made(r) =>
              /\ Ctx(r)'.budget # Ctx(r).budget =>
                    DispatchOf(r, "SET_BUDGET") \/ DispatchOf(r, "BUY") \/ DispatchOf(r, "SELL")
              /\ Ctx(r)'.holdings # Ctx(r).holdings =>
                    DispatchOf(r, "BUY") \/ DispatchOf(r, "SELL")]_vars

\* a run that bought and then dispatched the START node of a second walk and
\* an OUTPUT node has returned with the holding bought
C16_Witness ==
    /\ pc[1] = "done"
    /\ Ctx(1).holdings["BTC"] = Q(1)
    /\ \E i, j, k \in 1..Len(Ctx(1).logs) :
          /\ i < j /\ j < k
          /\ Ctx(1).logs[i].tag = "TRADE"
          /\ Ctx(1).logs[j].tag = "START"
          /\ Ctx(1).logs[k].tag = "OUTPUT"

\* the categories other than CONDITION that the dispatch has a branch for
Plain ==
    {"START", "VARIABLE", "MATH", "SET_BUDGET", "SCRAPE_BTC", "SCRAPE_ETH", "NEWS_SCRAPER",
     "SEND_TO_LLM", "RISK_ANALYSIS", "BUY", "SELL", "OUTPUT"}

\* the step of run r appends exactly one log entry, for node id
AppendsFor(r, id) ==
    /\ Len(Ctx(r)'.logs) = Len(Ctx(r).logs) + 1
    /\ LastEntry(r)'.node = id

\* run r ends the dispatch of the CONDITION node cur[r] whose condition it evaluated
ConditionEnds(r) == pc[r] = "xor" /\ pc'[r] = "walk"

\* C17: the log only grows at its end: at every step the log before is a
\* prefix of the log after; the dispatch of a node of any category other
\* than CONDITION appends exactly one entry, that node's; so does the dispatch
\* of a CONDITION node, at once when the condition is empty or cannot be
\* resolved, else when its evaluation ends; and no other step appends.
C17_AppendOnly ==
    [][\A r \in Runs :
          Made(r) =>
              /\ Len(Ctx(r).logs) <= Len(Ctx(r)'.logs)
              /\ SubSeq(Ctx(r)'.logs, 1, Len(Ctx(r).logs)) = Ctx(r).logs
              /\ \A cat \in Plain : DispatchOf(r, cat) => AppendsFor(r, Head(calls[r]).id)
              /\ DispatchOf(r, "CONDITION") /\ pc'[r] = "walk" => AppendsFor(r, Head(calls[r]).id)
              /\ DispatchOf(r, "CONDITION") /\ pc'[r] = "xor" => Ctx(r)'.logs = Ctx(r).logs
              /\ ConditionEnds(r) => AppendsFor(r, cur[r])
              /\ Ctx(r)'.logs # Ctx(r).logs =>
                    \/ ConditionEnds(r)
                    \/ \E cat \in Plain \cup {"CONDITION"} : DispatchOf(r, cat)]_vars

\* run r dispatches the node at the head of its calls, which is not a CONDITION node
PlainStep(r) ==
    /\ pc[r] = "walk"
    /\ calls[r] # <<>>
    /\ Head(calls[r]).k = "call"
    /\ Head(calls[r]).id \notin visited[r]
    /\ HeadData(r).category # "CONDITION"
    /\ visited'[r] # visited[r]

\* a walk of run r has ended: the call for its START node has returned
WalkEnded(r) == pc[r] \in {"walk", "done"} /\ calls[r] = <<>> /\ visited[r] # {}

\* every target of an edge from a node of the walk that is not a CONDITION
\* node has been visited in the walk
SuccessorsEntered(r) ==
    \A n \in visited[r] :
        NodeData(payload[r].nodes, n).category # "CONDITION" =>
            \A e \in AllEdgesFrom(r, n) : payload[r].edges[e].target \in visited[r]

\* C18: after the dispatch of a node that is not a CONDITION node the walk
\* makes a call for the target of every outgoing edge, whatever its handle,
\* in edge-list order and before every call that was pending (depth first:
\* the sub-walk of an earlier target ends before the next target is entered);
\* and the walk does enter all these targets: when it ends, every target of
\* an edge from a dispatched node that is not a CONDITION node has been
\* visited.
C18_DepthFirst ==
    /\ [][\A r \in Runs :
            PlainStep(r) /\ pc'[r] = "walk" /\ Len(Ctx(r)'.logs) = Len(Ctx(r).logs) + 1
                         /\ LastEntry(r)'.node = Head(calls[r]).id =>
                /\ CallsFor(r, NewCalls(r, Len(calls[r]) - 1), AllEdgesFrom(r, Head(calls[r]).id))
                /\ SubSeq(calls'[r], Len(calls'[r]) - Len(calls[r]) + 2, Len(calls'[r])) = Tail(calls[r])]_vars
    /\ [](\A r \in Runs : WalkEnded(r) => SuccessorsEntered(r))

\* the START node of the walk run r is in, or has just ended
WalkStart(r) == KthStart(r, WalksBegun(r))

\* the entries of CONDITION node n for its own condition (lines 163, 176, 178)
OwnEntries(r, n) ==
    {i \in 1..Len(Ctx(r).logs) :
        /\ Ctx(r).logs[i].node = n
        /\ Ctx(r).logs[i].msg \in {"Evaluated", "WARNING: No condition provided",
                                   "ERROR: Condition evaluation error"}}

\* the entry of the dispatch of CONDITION node n in the walk run r is in
OwnEntry(r, n) == Ctx(r).logs[CHOOSE i \in OwnEntries(r, n) : \A j \in OwnEntries(r, n) : j <= i]

\* the edges the walk is to follow: every edge from a visited node that is
\* not a CONDITION node, and the edges of the matching handle from a visited
\* CONDITION node whose condition evaluated
Followed(r) ==
    {e \in 1..Len(payload[r].edges) :
        LET n == payload[r].edges[e].source
        IN  /\ n \in visited[r]
            /\ \/ NodeData(payload[r].nodes, n).category # "CONDITION"
               \/ /\ OwnEntries(r, n) # {}
                  /\ OwnEntry(r, n).msg = "Evaluated"
                  /\ payload[r].edges[e].handle = HandleOf(OwnEntry(r, n).v)}

\* the nodes reached from the set S along at most n followed edges
RECURSIVE Reached(_, _, _)
Reached(r, S, n) ==
    IF n = 0 THEN S
    ELSE Reached(r, S \cup {payload[r].edges[e].target : e \in {f \in Followed(r) : payload[r].edges[f].source \in S}}, n - 1)

\* C19: when the walk from a START node ends, the visited nodes are the nodes
\* reached from that START node along the edges the walk is to follow (all
\* edges of a node that is not a CONDITION node, the edges of the matching
\* handle of a CONDITION node that evaluated): every target of such an edge
\* is visited, and no node is visited that only other edges lead to.
C19_WalkClosure ==
    \A r \in Runs :
        WalkEnded(r) =>
            /\ \A e \in Followed(r) : payload[r].edges[e].target \in visited[r]
            /\ visited[r] \subseteq Reached(r, {WalkStart(r)}, Len(payload[r].nodes))

\* the same with the targets left out: no node is visited that the followed
\* edges do not lead to from the START node
OnlyReached ==
    \A r \in Runs :
        WalkEnded(r) => visited[r] \subseteq Reached(r, {WalkStart(r)}, Len(payload[r].nodes))

====
